---- MODULE Spec2Model ----
(***************************************************************************)
(* LuckyBall: the encrypted ticket / draw / score state machine of the     *)
(* LuckyBall contract (src/test/LuckyBall.ts, lines 165-307).              *)
(*                                                                         *)
(* Every external call of the contract is one atomic action.  A call that  *)
(* reverts leaves the contract storage, the event log and the balance as   *)
(* they were; only lastCall, the record of the call and of its outcome,    *)
(* changes.  An encrypted value is modelled by its handle state (init) and *)
(* by the plaintext it decrypts to (val); the contract never reads val     *)
(* outside the FHE operators.  A handle is named by what the value is      *)
(* computed from: a ticket number keeps the handle of the external input   *)
(* the buyer passed, the first score of every player is the one handle of  *)
(* FHE.asEuint32(0), and a score that a claim stores is the result of a    *)
(* FHE.select over the number of the buyer's ticket and the buyer's score  *)
(* before, named by the player and the count of that player's claims.      *)
(*                                                                         *)
(* Amounts of ether are counted in gwei (1 gwei = 10^9 wei).  A uint32 is  *)
(* kept as two 16-bit limbs, so that additions wrap at 2^32.               *)
(***************************************************************************)
EXTENDS Integers, Sequences, FiniteSets, Bags, TLC

VARIABLES
    playerTickets,      \* mapping(address => Ticket[])
    playerScores,       \* mapping(address => euint32)
    scoreInitialized,   \* mapping(address => bool)
    draws,              \* mapping(uint256 => Draw)
    currentDrawId,      \* uint256 public currentDrawId
    events,             \* the bag of events emitted so far
    balance,            \* ether held by the contract, in gwei
    acl,                \* the decrypt grants issued so far (FHE.allow)
    ciphertexts,        \* the clear value behind every handle stored so far
    ui,                 \* the query cache of the web client (LuckyBallApp)
    cli,                \* the latest run of a hardhat task (tasks/LuckyBall.ts)
    lastCall            \* the latest call: operation, arguments, outcome

storage == <<playerTickets, playerScores, scoreInitialized, draws, currentDrawId>>
vars == <<playerTickets, playerScores, scoreInitialized, draws, currentDrawId,
          events, balance, acl, ciphertexts, ui, cli, lastCall>>

----------------------------------------------------------------------------
(* Program constants *)

TICKET_PRICE == 1000000
MIN_NUMBER == 1
MAX_NUMBER == 9
WIN_REWARD == 10

(* Bound of the model: a run holds at most MaxCalls successful calls *)

MaxCalls == 5

Players == {"alice", "bob"}
DrawIds == 0 .. (MaxCalls + 2)
Payments == {TICKET_PRICE - 1, TICKET_PRICE, TICKET_PRICE + 1}
TicketNumbers == {1, 9}
RandomnessValues == {8, 9}
TicketIndexes == 0 .. (MaxCalls - 2)
Timestamps == {1, 2}

OK == "ok"
ErrInvalidPrice == "Invalid ticket price"
ErrDrawExecuted == "Draw already executed"
ErrInvalidProof == "InvalidProof"
ErrInvalidIndex == "Invalid ticket index"
ErrAlreadyProcessed == "Already processed"
ErrDrawNotExecuted == "Draw not executed"

----------------------------------------------------------------------------
(* uint32 arithmetic on 16-bit limbs *)

Limb == 65536

Uint32(n) == [hi |-> (n \div Limb) % Limb, lo |-> n % Limb]

AddUint32(a, b) ==
    LET lo == a.lo + b.lo
        hi == a.hi + b.hi + (lo \div Limb)
    IN  [hi |-> hi % Limb, lo |-> lo % Limb]

(* the integer a uint32 stands for, defined while it fits a TLC integer *)
Uint32Value(u) == u.hi * Limb + u.lo

----------------------------------------------------------------------------
(* The encrypted-value capability as the contract uses it *)

ZeroHandle32 == [init |-> FALSE, val |-> Uint32(0)]

(* An externalEuint8 with its input proof: the handle of a ciphertext that  *)
(* user encrypted for the contract, the at-th input of that user, of the    *)
(* plaintext clear.  The proof binds the handle to the user.                *)
ExternalEuint8(user, at, clear) == [user |-> user, at |-> at, clear |-> clear]

(* the euint8 of a verified input: it keeps the handle of the input *)
FHE_fromExternal(encryptedNumber) ==
    [init |-> TRUE, val |-> encryptedNumber.clear % 256,
     user |-> encryptedNumber.user, at |-> encryptedNumber.at]
FHE_asEuint8(x) == [init |-> TRUE, val |-> x % 256]
FHE_asEuint32(x) == [init |-> TRUE, val |-> Uint32(x)]
FHE_eq(a, b) == [init |-> TRUE, val |-> (a.val = b.val)]
FHE_add(a, b) == [init |-> TRUE, val |-> AddUint32(a.val, b.val)]
(* faulty variant of FHE_select: the branches are swapped *)
FHE_selectSwapped(c, a, b) ==
    [init |-> TRUE, val |-> IF c.val THEN b.val ELSE a.val]

FHE_select(c, a, b) == [init |-> TRUE, val |-> IF c.val THEN a.val ELSE b.val]

----------------------------------------------------------------------------
(* Structs and views *)

EmptyDraw == [winningNumber |-> 0, executedAt |-> 0, executed |-> FALSE]

(* faulty variant of ExecutedDraw: the executed flag is not set *)
ExecutedDrawUnflagged(result, ts) ==
    [winningNumber |-> result, executedAt |-> ts, executed |-> FALSE]

(* faulty variant of NewTicket: bound to the draw before the given one *)
NewTicketPreviousDraw(number, drawId) ==
    [number |-> number, drawId |-> IF drawId > 1 THEN drawId - 1 ELSE drawId,
     claimed |-> FALSE]

(* faulty variant of PushTicket: writes the last slot without a push *)
PushTicketOverwrite(tickets, ticket) ==
    IF tickets = <<>> THEN <<ticket>> ELSE [tickets EXCEPT ![Len(tickets)] = ticket]

(* faulty variant of PushTicket: the new ticket takes the first slot *)
PushTicketFront(tickets, ticket) == <<ticket>> \o tickets

(* faulty variant of MarkClaimed: the flag is set for a winning ticket only *)
MarkClaimedIfWon(tickets, ticketIndex) ==
    IF tickets[ticketIndex + 1].number.val
         = draws[tickets[ticketIndex + 1].drawId].winningNumber
    THEN [tickets EXCEPT ![ticketIndex + 1].claimed = TRUE]
    ELSE tickets

NewDraw(ts) == [winningNumber |-> 0, executedAt |-> ts, executed |-> FALSE]

ExecutedDraw(result, ts) ==
    [winningNumber |-> result, executedAt |-> ts, executed |-> TRUE]

NewTicket(number, drawId) ==
    [number |-> number, drawId |-> drawId, claimed |-> FALSE]

PushTicket(tickets, ticket) == Append(tickets, ticket)

(* faulty variant of NewTicketIndex: the length after the push *)
NewTicketIndexOneBased(tickets) == Len(tickets) + 1

(* length - 1 after the push: the index of the slot the push creates *)
NewTicketIndex(tickets) == (Len(tickets) + 1) - 1

(* faulty variant of MarkClaimed: every ticket of the player is flagged *)
MarkClaimedAll(tickets, ticketIndex) ==
    [k \in 1 .. Len(tickets) |-> [tickets[k] EXCEPT !.claimed = TRUE]]

MarkClaimed(tickets, ticketIndex) ==
    [tickets EXCEPT ![ticketIndex + 1].claimed = TRUE]

TicketAt(player, ticketIndex) == playerTickets[player][ticketIndex + 1]

totalTickets(player) == Len(playerTickets[player])
getScore(player) == playerScores[player]
getTickets(player) == playerTickets[player]
getDraw(drawId) == draws[drawId]

(* an external call of the view getDraw: a mapping read, which never reverts *)
getDrawCall(drawId) == [result |-> OK, ret |-> getDraw(drawId)]

TicketPurchased(player, drawId, ticketIndex) ==
    [name |-> "TicketPurchased", player |-> player, drawId |-> drawId,
     ticketIndex |-> ticketIndex]

(* faulty variant of DrawExecuted: the event names the newly opened draw *)
DrawExecutedNewDraw(drawId, winningNumber) ==
    [name |-> "DrawExecuted", drawId |-> drawId + 1,
     winningNumber |-> winningNumber]

DrawExecuted(drawId, winningNumber) ==
    [name |-> "DrawExecuted", drawId |-> drawId, winningNumber |-> winningNumber]

TicketClaimProcessed(player, drawId, ticketIndex) ==
    [name |-> "TicketClaimProcessed", player |-> player, drawId |-> drawId,
     ticketIndex |-> ticketIndex]

Emit(e) == events (+) SetToBag({e})

Call(op, sender, value, ticketIndex, result, ret) ==
    [op |-> op, sender |-> sender, value |-> value, ticketIndex |-> ticketIndex,
     result |-> result, ret |-> ret]

Reverted(op, sender, value, ticketIndex, err) ==
    /\ lastCall' = Call(op, sender, value, ticketIndex, err, 0)
    /\ UNCHANGED <<storage, events, balance, acl, ciphertexts>>

----------------------------------------------------------------------------
(* Decrypt grants *)

Contract == "contract"

(* the handle of a ticket number: the handle of the input it was imported *)
(* from                                                                   *)
NumberHandle(number) == [kind |-> "number", user |-> number.user, at |-> number.at]

(* The handle of the version-th score stored for player.  The first is the *)
(* trivial encryption FHE.asEuint32(0), which no operand ties to a player:  *)
(* it is one handle for all players.  A later one is the FHE.select of a    *)
(* claim, computed from the number of the player's ticket and from the      *)
(* player's score before it.                                                *)
ScoreHandle(player, version) ==
    IF version = 0 THEN [kind |-> "score", user |-> "", at |-> 0]
    ELSE [kind |-> "score", user |-> player, at |-> version]

(* the number of score handles stored for player after the first one *)
ScoreVersion(player) ==
    Cardinality({k \in 1 .. Len(playerTickets[player]) :
                    playerTickets[player][k].claimed})

CurrentScoreHandle(player) == ScoreHandle(player, ScoreVersion(player))

(* bytes32(0): the handle of an encrypted value that was never assigned *)
ZeroHash == [kind |-> "zero", user |-> "", at |-> 0]

FHE_allowThis(handle) == [handle |-> handle, to |-> Contract]
FHE_allow(handle, account) == [handle |-> handle, to |-> account]

(* faulty variant of ClaimGrants: the player is not granted the new score *)
ClaimGrantsContractOnly(player) ==
    {FHE_allowThis(ScoreHandle(player, ScoreVersion(player) + 1))}

TicketGrants(player, number) ==
    {FHE_allowThis(NumberHandle(number)),
     FHE_allow(NumberHandle(number), player)}

EnsureScoreGrants(player) ==
    IF ~scoreInitialized[player]
    THEN {FHE_allowThis(ScoreHandle(player, 0)),
          FHE_allow(ScoreHandle(player, 0), player)}
    ELSE {FHE_allow(CurrentScoreHandle(player), player)}

ClaimGrants(player) ==
    {FHE_allowThis(ScoreHandle(player, ScoreVersion(player) + 1)),
     FHE_allow(ScoreHandle(player, ScoreVersion(player) + 1), player)}

(* The ciphertexts behind the stored handles: buyTicket stores the imported *)
(* number and, for a new player, the encrypted zero; claimTicket stores the *)
(* score that FHE.select returns.  A handle names one ciphertext for good;  *)
(* the clear value of every ciphertext is kept in limbs, as a uint32 is.    *)

Ciphertext(handle, clear) == [handle |-> handle, clear |-> clear]

TicketCiphertexts(number) ==
    {Ciphertext(NumberHandle(number), Uint32(number.val))}

EnsureScoreCiphertexts(player) ==
    IF ~scoreInitialized[player]
    THEN {Ciphertext(ScoreHandle(player, 0), Uint32(0))}
    ELSE {}

ClaimCiphertexts(player, newScore) ==
    {Ciphertext(ScoreHandle(player, ScoreVersion(player) + 1), newScore.val)}

(* the clear value of the ciphertext that handle names *)
ClearOf(handle) ==
    LET c == CHOOSE x \in ciphertexts : x.handle = handle
    IN  Uint32Value(c.clear)

----------------------------------------------------------------------------
(* The web client (ui/src/components/LuckyBallApp.tsx), open in the browser *)
(* of one player whose wallet is connected (address is defined and the      *)
(* contract address is configured).  The page holds the data of its cached  *)
(* queries, its React state and the handlers that are running.  A query is  *)
(* fetched when it is first enabled, when its key changes and when a        *)
(* handler invalidates it; until a fetch under a new key resolves its data  *)
(* is undefined, written <<>>.  An asynchronous handler runs in steps, one  *)
(* for each wait on the wallet, the chain or the queries, and the steps of  *)
(* different handlers and the transactions of other senders interleave.     *)
(* The status banner (statusMessage) and the ticket price query, whose      *)
(* value and fallback are both TICKET_PRICE, are left out.                  *)

UiAddress == "alice"

normalizeDraw(raw) ==
    [executed |-> raw.executed, winningNumber |-> raw.winningNumber,
     executedAt |-> raw.executedAt]

normalizeTicket(raw, index) ==
    [index |-> index, handle |-> NumberHandle(raw.number),
     drawId |-> raw.drawId, claimed |-> raw.claimed]

(* what getScore returns to a client: bytes32(0) until _ensureScore has run *)
getScoreHandle(player) ==
    IF getScore(player).init THEN CurrentScoreHandle(player) ELSE ZeroHash

(* queryFn of ['tickets', address] *)
FetchTickets(rawTickets) ==
    [k \in 1 .. Len(rawTickets) |-> normalizeTicket(rawTickets[k], k - 1)]

ticketDrawIds(tickets) == {tickets[k].drawId : k \in 1 .. Len(tickets)}

(* a running handler that sends a transaction: where it waits, what it was  *)
(* called with and the refetches it still waits for                         *)
Process(pc, arg, awaiting) == [pc |-> pc, arg |-> arg, awaiting |-> awaiting]
Idle == Process("idle", 0, {})

(* a running decryption: where it waits and the handle it was started on *)
Decrypting(pc, handle) == [pc |-> pc, handle |-> handle]
NotDecrypting == Decrypting("idle", ZeroHash)

(* the page when it mounts: the encryption instance is loading, the signer  *)
(* is not resolved yet and the queries enabled from the start are fetching  *)
UiMounted ==
    [zama |-> "loading",
     signerPromise |-> FALSE,
     selectedNumber |-> <<>>,
     errorMessage |-> "",
     decryptedScore |-> <<>>,
     ticketDecryptions |-> {},
     currentDrawId |-> <<>>,
     activeDraw |-> <<>>,
     previousDraw |-> <<>>,
     scoreHandle |-> <<>>,
     tickets |-> <<>>,
     historicalDraws |-> <<>>,
     entries |-> <<>>,
     fetching |-> {"currentDrawId", "score", "tickets"},
     buy |-> Idle,
     draw |-> Idle,
     claim |-> {},
     decryptScore |-> NotDecrypting,
     decryptTicket |-> {},
     decryptRequests |-> <<>>,
     runs |-> 0]

statusLabel(ticket, historicalDraws) ==
    IF ticket.claimed THEN "Claimed"
    ELSE IF ticket.drawId \in DOMAIN historicalDraws
              /\ historicalDraws[ticket.drawId].executed
         THEN "Ready to claim"
    ELSE "Waiting for draw"

----------------------------------------------------------------------------
(* The hardhat tasks (tasks/LuckyBall.ts).  A task receives its parameters  *)
(* as text, here a sequence of characters, and converts them with           *)
(* JavaScript's Number() (StringToNumber): white space and line terminators *)
(* around the text are dropped; the empty text is 0; "0x", "0o" and "0b",   *)
(* in either case, followed by digits of the radix are an integer; an       *)
(* optional sign followed by "Infinity", or by decimal digits with at most  *)
(* one point and an optional exponent, is a decimal number; any other text  *)
(* is NaN.  A finite number is kept as its sign, its significant decimal    *)
(* digits (no zero at either end) and a decimal exponent: its value is      *)
(* 0.d1d2...dn * 10^exp, negated when neg, and zero has no digits.  The     *)
(* value of a decimal text is the double nearest to it, a tie going to the  *)
(* even significand, written out exactly in decimal.  The task is called    *)
(* with every text of at most MaxArgLen characters and with some texts of   *)
(* more digits than a double holds.                                         *)

MaxArgLen == 3

CliChars == {"0", "1", "9", "-", "+", ".", " ", "x", "e"}
(* "1.0000000000000001", "9.0000000000000001" and "0.99999999999999999999" *)
RoundedArgs ==
    {<<"1", ".">> \o [i \in 1 .. 15 |-> "0"] \o <<"1">>,
     <<"9", ".">> \o [i \in 1 .. 15 |-> "0"] \o <<"1">>,
     <<"0", ".">> \o [i \in 1 .. 20 |-> "9"]}

CliArgs == UNION {[1 .. n -> CliChars] : n \in 0 .. MaxArgLen} \cup RoundedArgs

ErrNumberArg == "--number must be an integer between 1 and 9"
ErrIndexArg == "--index must be a non-negative integer"
(* ethers' getBigInt on a number above Number.MAX_SAFE_INTEGER *)
ErrOverflow == "overflow"

(* StrWhiteSpaceChar: WhiteSpace and LineTerminator; a character with no    *)
(* escape in a string is named by its code point                            *)
StrWhiteSpaceChar ==
    {" ", "\t", "\n", "\r", "\f", "U+000B", "U+00A0", "U+1680", "U+2000",
     "U+2001", "U+2002", "U+2003", "U+2004", "U+2005", "U+2006", "U+2007",
     "U+2008", "U+2009", "U+200A", "U+2028", "U+2029", "U+202F", "U+205F",
     "U+3000", "U+FEFF"}

BinaryDigits == {"0", "1"}
OctalDigits == {"0", "1", "2", "3", "4", "5", "6", "7"}
DecimalDigits == {"0", "1", "2", "3", "4", "5", "6", "7", "8", "9"}
HexDigits == DecimalDigits \cup {"a", "b", "c", "d", "e", "f"}
                           \cup {"A", "B", "C", "D", "E", "F"}

DigitValue(c) ==
    CASE c = "0" -> 0 [] c = "1" -> 1 [] c = "2" -> 2 [] c = "3" -> 3
      [] c = "4" -> 4 [] c = "5" -> 5 [] c = "6" -> 6 [] c = "7" -> 7
      [] c = "8" -> 8 [] c = "9" -> 9
      [] c \in {"a", "A"} -> 10 [] c \in {"b", "B"} -> 11
      [] c \in {"c", "C"} -> 12 [] c \in {"d", "D"} -> 13
      [] c \in {"e", "E"} -> 14 [] c \in {"f", "F"} -> 15

Front(s) == SubSeq(s, 1, Len(s) - 1)

(* the decimal digits of a natural number *)
RECURSIVE DigitsOf(_)
DigitsOf(n) == IF n = 0 THEN <<>> ELSE DigitsOf(n \div 10) \o <<n % 10>>

(* digits * base + carry, on decimal digits, most significant first *)
RECURSIVE MulAdd(_, _, _)
MulAdd(digits, base, carry) ==
    IF digits = <<>> THEN DigitsOf(carry)
    ELSE LET t == digits[Len(digits)] * base + carry
         IN  MulAdd(Front(digits), base, t \div 10) \o <<t % 10>>

(* the decimal digits of the integer a numeral of the base denotes *)
RECURSIVE NumeralValue(_, _)
NumeralValue(digits, base) ==
    IF digits = <<>> THEN <<>>
    ELSE MulAdd(NumeralValue(Front(digits), base), base,
                DigitValue(digits[Len(digits)]))

RECURSIVE TrimStart(_)
TrimStart(text) ==
    IF text # <<>> /\ text[1] \in StrWhiteSpaceChar
    THEN TrimStart(Tail(text))
    ELSE text

RECURSIVE TrimEnd(_)
TrimEnd(text) ==
    IF text # <<>> /\ text[Len(text)] \in StrWhiteSpaceChar
    THEN TrimEnd(Front(text))
    ELSE text

NaN == [kind |-> "nan", neg |-> FALSE, digits |-> <<>>, exp |-> 0]
Infinity(neg) == [kind |-> "inf", neg |-> neg, digits |-> <<>>, exp |-> 0]
Zero(neg) == [kind |-> "num", neg |-> neg, digits |-> <<>>, exp |-> 0]

RECURSIVE LeadingZeros(_)
LeadingZeros(digits) ==
    IF digits = <<>> \/ digits[1] # 0 THEN 0
    ELSE 1 + LeadingZeros(Tail(digits))

RECURSIVE TrailingZeros(_)
TrailingZeros(digits) ==
    IF digits = <<>> \/ digits[Len(digits)] # 0 THEN 0
    ELSE 1 + TrailingZeros(Front(digits))

(* 0.a <= 0.b, for digits without a zero at the end *)
RECURSIVE FractionLeq(_, _)
FractionLeq(a, b) ==
    IF a = <<>> THEN TRUE
    ELSE IF b = <<>> THEN FALSE
    ELSE IF a[1] # b[1] THEN a[1] < b[1]
    ELSE FractionLeq(Tail(a), Tail(b))

(* a positive decimal 0.digits * 10^exp without a zero at either end of its *)
(* digits                                                                   *)
Decimal(digits, exp) ==
    LET lead == LeadingZeros(digits)
    IN  IF lead = Len(digits) THEN [digits |-> <<>>, exp |-> 0]
        ELSE [digits |-> SubSeq(digits, lead + 1,
                                Len(digits) - TrailingZeros(digits)),
              exp |-> exp - lead]

(* x < y, for positive decimals *)
Less(x, y) ==
    \/ x.exp < y.exp
    \/ x.exp = y.exp /\ ~FractionLeq(y.digits, x.digits)

(* 2 * x and x / 2, exactly: each digit of the result comes from a digit of *)
(* x and its neighbour                                                      *)
Twice(x) ==
    LET n == Len(x.digits)
        d(i) == IF i < 1 \/ i > n THEN 0 ELSE x.digits[i]
    IN  Decimal([i \in 1 .. n + 1 |->
                    ((2 * d(i - 1)) % 10) + (IF d(i) >= 5 THEN 1 ELSE 0)],
                x.exp + 1)
Half(x) ==
    LET n == Len(x.digits)
        d(i) == IF i < 1 \/ i > n THEN 0 ELSE x.digits[i]
    IN  Decimal([i \in 1 .. n + 1 |-> (d(i) + 10 * (d(i - 1) % 2)) \div 2],
                x.exp)

(* x * 2^k, exactly, for any integer k *)
RECURSIVE Scale(_, _)
Scale(x, k) ==
    IF k = 0 THEN x
    ELSE IF k = 1 THEN Twice(x)
    ELSE IF k = 0 - 1 THEN Half(x)
    ELSE LET h == IF k > 0 THEN k \div 2 ELSE 0 - ((0 - k) \div 2)
             y == Scale(x, h)
         IN  IF y.digits = <<>> THEN y ELSE Scale(y, k - h)

(* the format of a double: 53 bits of significand, the least exponent of    *)
(* the last bit -1074, the greatest 971                                     *)
TwoTo52 ==
    [digits |-> <<4, 5, 0, 3, 5, 9, 9, 6, 2, 7, 3, 7, 0, 4, 9, 6>>, exp |-> 16]
TwoTo53 ==
    [digits |-> <<9, 0, 0, 7, 1, 9, 9, 2, 5, 4, 7, 4, 0, 9, 9, 2>>, exp |-> 16]
MinBit == 0 - 1074
MaxBit == 1023 - 52

(* x as w * 2^bit with 2^52 <= w < 2^53, or with bit = MinBit and w below   *)
(* 2^52, starting from w * 2^bit = x                                        *)
RECURSIVE Significand(_, _)
Significand(w, bit) ==
    IF w.digits = <<>> THEN [w |-> w, bit |-> bit]
    ELSE IF ~Less(w, TwoTo53) THEN Significand(Half(w), bit + 1)
    ELSE IF Less(w, TwoTo52) /\ bit > MinBit
         THEN Significand(Twice(w), bit - 1)
    ELSE [w |-> w, bit |-> bit]

(* the integer nearest to w, the even one of two equally near, as digits *)
RoundHalfEven(w) ==
    LET n == Len(w.digits)
        whole == IF w.exp <= 0 THEN <<>>
                 ELSE [i \in 1 .. w.exp |->
                          IF i <= n THEN w.digits[i] ELSE 0]
        rest == IF w.exp >= n THEN <<>>
                ELSE IF w.exp >= 0 THEN SubSeq(w.digits, w.exp + 1, n)
                ELSE <<0>> \o w.digits
        odd == whole # <<>> /\ whole[Len(whole)] % 2 = 1
        up == /\ rest # <<>>
              /\ \/ rest[1] > 5
                 \/ rest[1] = 5 /\ (Len(rest) > 1 \/ odd)
    IN  IF up THEN MulAdd(whole, 1, 1) ELSE whole

(* the number 0.digits * 10^exp as a double holds it: the nearest value of  *)
(* the format, the one with the even significand of two equally near;       *)
(* Infinity from 2^1024 on.  An integer below 2^53 is a value of the        *)
(* format.                                                                  *)
JsNumber(neg, digits, exp) ==
    LET x == Decimal(digits, exp)
        estimate == 52 - (x.exp * 3322) \div 1000
        first == IF 0 - estimate < MinBit THEN MinBit ELSE 0 - estimate
        s == Significand(Scale(x, 0 - first), first)
        m == RoundHalfEven(s.w)
        r == Scale(Decimal(m, Len(m)), s.bit)
    IN  IF x.digits = <<>> THEN Zero(neg)
        ELSE IF x.exp > 309 THEN Infinity(neg)
        ELSE IF x.exp < 0 - 323 THEN Zero(neg)
        ELSE IF Len(x.digits) <= x.exp /\ Less(x, TwoTo53)
             THEN [kind |-> "num", neg |-> neg, digits |-> x.digits, exp |-> x.exp]
        ELSE IF m = <<>> THEN Zero(neg)
        ELSE IF s.bit > MaxBit \/ (s.bit = MaxBit /\ m = TwoTo53.digits)
             THEN Infinity(neg)
        ELSE [kind |-> "num", neg |-> neg, digits |-> r.digits, exp |-> r.exp]

AllIn(text, chars) == \A k \in 1 .. Len(text) : text[k] \in chars

RECURSIVE SmallValue(_)
SmallValue(digits) ==
    IF digits = <<>> THEN 0 ELSE SmallValue(Front(digits)) * 10 + digits[Len(digits)]

(* the value of the digits of an ExponentPart, or limit when the value is   *)
(* greater                                                                  *)
RECURSIVE ExponentValue(_, _)
ExponentValue(text, limit) ==
    IF text = <<>> THEN 0
    ELSE LET value == ExponentValue(Front(text), limit) * 10
                        + DigitValue(text[Len(text)])
         IN  IF value > limit THEN limit ELSE value

InfinityText == <<"I", "n", "f", "i", "n", "i", "t", "y">>

(* StrUnsignedDecimalLiteral: Infinity, or digits with at most one point    *)
(* and an optional ExponentPart.  The digits of the mantissa are fewer than *)
(* the characters of the body, so an exponent of Len(body) + 324 or more    *)
(* puts the first digit beyond 10^324 or below 10^-324, where every number  *)
(* is Infinity or 0, as the exponent Len(body) + 324 itself does: the       *)
(* exponent is counted up to there.                                         *)
StrDecimal(neg, body) ==
    LET marks == {k \in 1 .. Len(body) : body[k] \in {"e", "E"}}
        mark == IF marks = {} THEN Len(body) + 1
                ELSE CHOOSE k \in marks : \A j \in marks : k <= j
        mantissa == SubSeq(body, 1, mark - 1)
        expText == SubSeq(body, mark + 1, Len(body))
        expSigned == expText # <<>> /\ expText[1] \in {"+", "-"}
        expDigits == IF expSigned THEN Tail(expText) ELSE expText
        points == {k \in 1 .. Len(mantissa) : mantissa[k] = "."}
        point == IF points = {} THEN Len(mantissa) + 1
                 ELSE CHOOSE k \in points : \A j \in points : k <= j
        intPart == SubSeq(mantissa, 1, point - 1)
        fracPart == SubSeq(mantissa, point + 1, Len(mantissa))
        digits == intPart \o fracPart
        limit == Len(body) + 324
        exponent == IF marks = {} THEN 0
                    ELSE IF expSigned /\ expText[1] = "-"
                         THEN 0 - ExponentValue(expDigits, limit)
                    ELSE ExponentValue(expDigits, limit)
    IN  IF body = InfinityText THEN Infinity(neg)
        ELSE IF /\ digits # <<>>
                /\ AllIn(digits, DecimalDigits)
                /\ (marks # {} =>
                      expDigits # <<>> /\ AllIn(expDigits, DecimalDigits))
             THEN JsNumber(neg, [k \in 1 .. Len(digits) |-> DigitValue(digits[k])],
                           Len(intPart) + exponent)
        ELSE NaN

(* NonDecimalIntegerLiteral: the digits after the two characters of the     *)
(* prefix, all of the radix and at least one                                *)
NonDecimal(t, chars, base) ==
    LET digits == SubSeq(t, 3, Len(t))
        value == NumeralValue(digits, base)
    IN  IF digits # <<>> /\ AllIn(digits, chars)
        THEN JsNumber(FALSE, value, Len(value))
        ELSE NaN

Number(text) ==
    LET t == TrimEnd(TrimStart(text))
    IN  IF t = <<>> THEN Zero(FALSE)
        ELSE IF Len(t) >= 2 /\ t[1] = "0" /\ t[2] \in {"x", "X"}
             THEN NonDecimal(t, HexDigits, 16)
        ELSE IF Len(t) >= 2 /\ t[1] = "0" /\ t[2] \in {"o", "O"}
             THEN NonDecimal(t, OctalDigits, 8)
        ELSE IF Len(t) >= 2 /\ t[1] = "0" /\ t[2] \in {"b", "B"}
             THEN NonDecimal(t, BinaryDigits, 2)
        ELSE IF t[1] \in {"+", "-"} THEN StrDecimal(t[1] = "-", Tail(t))
        ELSE StrDecimal(FALSE, t)

(* a finite number with no digit after the point *)
Number_isInteger(v) == v.kind = "num" /\ Len(v.digits) <= v.exp

(* the part of a finite number before the point, for a number below 10^9;   *)
(* MaxInteger stands for every greater one                                  *)
MaxInteger == 10 ^ 9
IntegerPart(v) ==
    IF v.exp <= 0 THEN 0
    ELSE IF v.exp > 9 THEN MaxInteger
    ELSE SmallValue([k \in 1 .. v.exp |->
                        IF k <= Len(v.digits) THEN v.digits[k] ELSE 0])
HasFraction(v) == Len(v.digits) > v.exp /\ v.digits # <<>>

(* v < n and v > n for a natural number n below 10^9; a comparison with NaN *)
(* is false                                                                 *)
LessThan(v, n) ==
    CASE v.kind = "nan" -> FALSE
      [] v.kind = "inf" -> v.neg
      [] v.kind = "num" ->
           IF v.digits = <<>> THEN 0 < n
           ELSE IF v.neg THEN TRUE
           ELSE IntegerPart(v) < n
GreaterThan(v, n) ==
    CASE v.kind = "nan" -> FALSE
      [] v.kind = "inf" -> ~v.neg
      [] v.kind = "num" ->
           IF v.digits = <<>> \/ v.neg THEN FALSE
           ELSE IntegerPart(v) > n \/ (IntegerPart(v) = n /\ HasFraction(v))

(* the integer an integral number is, MaxInteger for 10^9 and above *)
IntegerOf(v) == (IF v.neg THEN 0 - 1 ELSE 1) * IntegerPart(v)

(* Number.MAX_SAFE_INTEGER, 2^53 - 1, as 0.digits * 10^16 *)
MAX_SAFE_INTEGER ==
    [digits |-> <<9, 0, 0, 7, 1, 9, 9, 2, 5, 4, 7, 4, 0, 9, 9, 1>>, exp |-> 16]
(* an integral number ethers turns into a bigint: inside the safe range *)
IsSafeInteger(v) ==
    /\ Number_isInteger(v)
    /\ (\/ v.exp < MAX_SAFE_INTEGER.exp
        \/ /\ v.exp = MAX_SAFE_INTEGER.exp
           /\ FractionLeq(v.digits, MAX_SAFE_INTEGER.digits))

(* the record of a task run: its task, its signer, its parameter, the       *)
(* contract it talks to, where it waits, the error it threw, the value it   *)
(* encrypted, whether it sent a transaction, the score handle it read, the  *)
(* user decryptions it requested and what it printed (a score, or the       *)
(* status of the receipt)                                                   *)
CliRun(task, signer, arg, contract) ==
    [task |-> task, signer |-> signer, arg |-> arg, contract |-> contract,
     pc |-> "done", error |-> "", encrypted |-> <<>>, sent |-> FALSE,
     handle |-> ZeroHash, requests |-> <<>>, output |-> <<>>]

CliIdle == [CliRun("none", "", <<>>, "") EXCEPT !.pc = "idle"]

----------------------------------------------------------------------------
(* constructor *)

(* faulty variant of ConstructorDraws: draw 1 is created executed *)
ConstructorDrawsExecuted(ts) ==
    [d \in DrawIds |-> IF d = 1 THEN ExecutedDraw(0, ts) ELSE EmptyDraw]

ConstructorDraws(ts) == [d \in DrawIds |-> IF d = 1 THEN NewDraw(ts) ELSE EmptyDraw]

Init ==
    /\ currentDrawId = 1
    /\ draws = ConstructorDraws(1)
    /\ playerTickets = [p \in Players |-> <<>>]
    /\ playerScores = [p \in Players |-> ZeroHandle32]
    /\ scoreInitialized = [p \in Players |-> FALSE]
    /\ events = EmptyBag
    /\ balance = 0
    /\ acl = {}
    /\ ciphertexts = {}
    /\ ui = UiMounted
    /\ cli = CliIdle
    /\ lastCall = Call("constructor", "deployer", 0, 0, OK, 0)

----------------------------------------------------------------------------
(* buyTicket *)

(* faulty variant of BuyTicketCheck: msg.value >= TICKET_PRICE is accepted *)
BuyTicketCheckAtLeast(value, proofValid) ==
    IF value < TICKET_PRICE THEN ErrInvalidPrice
    ELSE IF draws[currentDrawId].executed THEN ErrDrawExecuted
    ELSE IF ~proofValid THEN ErrInvalidProof
    ELSE OK

(* faulty variant of BuyTicketCheck: the input proof is not verified *)
BuyTicketCheckNoProof(value, proofValid) ==
    IF value # TICKET_PRICE THEN ErrInvalidPrice
    ELSE IF draws[currentDrawId].executed THEN ErrDrawExecuted
    ELSE OK

BuyTicketCheck(value, proofValid) ==
    IF value # TICKET_PRICE THEN ErrInvalidPrice
    ELSE IF draws[currentDrawId].executed THEN ErrDrawExecuted
    ELSE IF ~proofValid THEN ErrInvalidProof
    ELSE OK

(* faulty variant of _ensureScore: the score is set to zero at every *)
(* purchase                                                          *)
_ensureScoreReset(player) ==
    /\ playerScores' = [playerScores EXCEPT ![player] = FHE_asEuint32(0)]
    /\ scoreInitialized' = [scoreInitialized EXCEPT ![player] = TRUE]

(* faulty variant of _ensureScore: scoreInitialized is not set *)
_ensureScoreNoFlag(player) ==
    /\ playerScores' = [playerScores EXCEPT ![player] =
                          IF ~scoreInitialized[player] THEN FHE_asEuint32(0)
                          ELSE @]
    /\ UNCHANGED scoreInitialized

(* faulty variant of _ensureScore: the score of every player is set up *)
_ensureScoreEveryone(player) ==
    /\ playerScores' = [p \in Players |->
                          IF ~scoreInitialized[p] THEN FHE_asEuint32(0)
                          ELSE playerScores[p]]
    /\ scoreInitialized' = [p \in Players |-> TRUE]

_ensureScore(player) ==
    IF ~scoreInitialized[player]
    THEN /\ playerScores' = [playerScores EXCEPT ![player] = FHE_asEuint32(0)]
         /\ scoreInitialized' = [scoreInitialized EXCEPT ![player] = TRUE]
    ELSE UNCHANGED <<playerScores, scoreInitialized>>

buyTicket(sender, encryptedNumber, proofValid, value) ==
    LET err == BuyTicketCheck(value, proofValid)
        number == FHE_fromExternal(encryptedNumber)
        index == NewTicketIndex(playerTickets[sender])
    IN  IF err # OK
        THEN Reverted("buyTicket", sender, value, 0, err)
        ELSE /\ _ensureScore(sender)
             /\ playerTickets' = [playerTickets EXCEPT ![sender] =
                                    PushTicket(@, NewTicket(number, currentDrawId))]
             /\ events' = Emit(TicketPurchased(sender, currentDrawId, index))
             /\ balance' = balance + value
             /\ ciphertexts' = ciphertexts \cup EnsureScoreCiphertexts(sender)
                                            \cup TicketCiphertexts(number)
             /\ acl' = acl \cup EnsureScoreGrants(sender)
                           \cup TicketGrants(sender, number)
             /\ lastCall' = Call("buyTicket", sender, value, 0, OK, index)
             /\ UNCHANGED <<draws, currentDrawId>>

(* createEncryptedInput(contract, user).add8(clear).encrypt(): a ciphertext *)
(* that did not exist before.  An input of user is stored by user alone, so *)
(* the count of user's tickets numbers the inputs user has not passed yet.  *)
NewInput(user, clear) == ExternalEuint8(user, totalTickets(user), clear)

(* the inputs that user has passed to buyTicket before *)
StoredInputs(user) ==
    {ExternalEuint8(user, getTickets(user)[k].number.at,
                    getTickets(user)[k].number.val) :
        k \in 1 .. totalTickets(user)}

----------------------------------------------------------------------------
(* executeDraw *)

(* faulty variant of ExecuteDrawCheck: a draw without tickets cannot be *)
(* resolved                                                             *)
ExecuteDrawCheckNeedsTickets ==
    IF draws[currentDrawId].executed THEN ErrDrawExecuted
    ELSE IF \A p \in Players : \A k \in 1 .. Len(playerTickets[p]) :
               playerTickets[p][k].drawId # currentDrawId
         THEN "No tickets"
    ELSE OK

ExecuteDrawCheck == IF draws[currentDrawId].executed THEN ErrDrawExecuted ELSE OK

(* faulty variant of _generateWinningNumber: MIN_NUMBER is not added *)
_generateWinningNumberNoOffset(randomness) == randomness % MAX_NUMBER

_generateWinningNumber(randomness) == (randomness % MAX_NUMBER) + MIN_NUMBER

(* faulty variant of NextDrawId: currentDrawId is not incremented *)
NextDrawIdStuck == currentDrawId

NextDrawId == currentDrawId + 1

(* faulty variant of DrawsAfterExecute: the next draw is not created *)
DrawsAfterExecuteNoNewDraw(result, ts) ==
    [draws EXCEPT ![currentDrawId] = ExecutedDraw(result, ts)]

(* faulty variant of DrawsAfterExecute: the executed flag is set on the draw *)
(* that the call opens                                                      *)
DrawsAfterExecuteFlagsNew(result, ts) ==
    [draws EXCEPT ![currentDrawId] = ExecutedDrawUnflagged(result, ts),
                  ![NextDrawId] = ExecutedDraw(0, ts)]

DrawsAfterExecute(result, ts) ==
    [draws EXCEPT ![currentDrawId] = ExecutedDraw(result, ts),
                  ![NextDrawId] = NewDraw(ts)]

executeDraw(sender, randomness, blockTimestamp) ==
    LET err == ExecuteDrawCheck
        result == _generateWinningNumber(randomness)
    IN  IF err # OK
        THEN Reverted("executeDraw", sender, 0, 0, err)
        ELSE /\ draws' = DrawsAfterExecute(result, blockTimestamp)
             /\ currentDrawId' = NextDrawId
             /\ events' = Emit(DrawExecuted(currentDrawId, result))
             /\ lastCall' = Call("executeDraw", sender, 0, 0, OK, result)
             /\ UNCHANGED <<playerTickets, playerScores, scoreInitialized,
                            balance, acl, ciphertexts>>

----------------------------------------------------------------------------
(* claimTicket *)

(* faulty variant of SettledDraw: the latest resolved draw, not the ticket's *)
SettledDrawLatest(ticket) == draws[currentDrawId - 1]

SettledDraw(ticket) == draws[ticket.drawId]

(* faulty variants of ClaimTicketCheck: without the claimed check, without  *)
(* the executed check, and with the index check off by one (the array       *)
(* access then panics)                                                      *)
ClaimTicketCheckRepeatable(sender, ticketIndex) ==
    IF ~(ticketIndex < Len(playerTickets[sender])) THEN ErrInvalidIndex
    ELSE IF ~SettledDraw(TicketAt(sender, ticketIndex)).executed
         THEN ErrDrawNotExecuted
    ELSE OK

ClaimTicketCheckAnyDraw(sender, ticketIndex) ==
    IF ~(ticketIndex < Len(playerTickets[sender])) THEN ErrInvalidIndex
    ELSE IF TicketAt(sender, ticketIndex).claimed THEN ErrAlreadyProcessed
    ELSE OK

ClaimTicketCheckOffByOne(sender, ticketIndex) ==
    IF ticketIndex > Len(playerTickets[sender]) THEN ErrInvalidIndex
    ELSE IF ticketIndex = Len(playerTickets[sender]) THEN "Panic(0x32)"
    ELSE IF TicketAt(sender, ticketIndex).claimed THEN ErrAlreadyProcessed
    ELSE IF ~SettledDraw(TicketAt(sender, ticketIndex)).executed
         THEN ErrDrawNotExecuted
    ELSE OK

(* faulty variant of ClaimTicketCheck: only the draw resolved last settles *)
ClaimTicketCheckLatestOnly(sender, ticketIndex) ==
    IF ~(ticketIndex < Len(playerTickets[sender])) THEN ErrInvalidIndex
    ELSE IF TicketAt(sender, ticketIndex).claimed THEN ErrAlreadyProcessed
    ELSE IF ~(TicketAt(sender, ticketIndex).drawId + 1 = currentDrawId)
         THEN ErrDrawNotExecuted
    ELSE OK

ClaimTicketCheck(sender, ticketIndex) ==
    IF ~(ticketIndex < Len(playerTickets[sender])) THEN ErrInvalidIndex
    ELSE IF TicketAt(sender, ticketIndex).claimed THEN ErrAlreadyProcessed
    ELSE IF ~SettledDraw(TicketAt(sender, ticketIndex)).executed
         THEN ErrDrawNotExecuted
    ELSE OK

(* faulty variant of NextScore: the reward is added without the select *)
NextScoreAlways(ticket, currentScore) ==
    FHE_add(currentScore, FHE_asEuint32(WIN_REWARD))

(* faulty variant of NextScore: a losing claim stores an encrypted zero *)
NextScoreLossResets(ticket, currentScore) ==
    LET winningEncrypted == FHE_asEuint8(SettledDraw(ticket).winningNumber)
        isWinner == FHE_eq(ticket.number, winningEncrypted)
        incremented == FHE_add(currentScore, FHE_asEuint32(WIN_REWARD))
    IN  FHE_select(isWinner, incremented, FHE_asEuint32(0))

NextScore(ticket, currentScore) ==
    LET winningEncrypted == FHE_asEuint8(SettledDraw(ticket).winningNumber)
        isWinner == FHE_eq(ticket.number, winningEncrypted)
        incremented == FHE_add(currentScore, FHE_asEuint32(WIN_REWARD))
    IN  FHE_select(isWinner, incremented, currentScore)

(* faulty variant of claimTicket: a processed claim pays the price back *)
claimTicketPaysOut(sender, ticketIndex) ==
    LET err == ClaimTicketCheck(sender, ticketIndex)
    IN  IF err # OK
        THEN Reverted("claimTicket", sender, 0, ticketIndex, err)
        ELSE LET ticket == TicketAt(sender, ticketIndex)
             IN  /\ playerScores' = [playerScores EXCEPT ![sender] =
                                       NextScore(ticket, playerScores[sender])]
                 /\ playerTickets' = [playerTickets EXCEPT ![sender] =
                                       MarkClaimed(playerTickets[sender],
                                                   ticketIndex)]
                 /\ events' = Emit(TicketClaimProcessed(sender, ticket.drawId,
                                                        ticketIndex))
                 /\ acl' = acl \cup ClaimGrants(sender)
                 /\ ciphertexts' = ciphertexts \cup
                       ClaimCiphertexts(sender,
                                        NextScore(ticket, playerScores[sender]))
                 /\ lastCall' = Call("claimTicket", sender, 0, ticketIndex, OK, 0)
                 /\ balance' = balance - TICKET_PRICE
                 /\ UNCHANGED <<scoreInitialized, draws, currentDrawId>>

claimTicket(sender, ticketIndex) ==
    LET err == ClaimTicketCheck(sender, ticketIndex)
    IN  IF err # OK
        THEN Reverted("claimTicket", sender, 0, ticketIndex, err)
        ELSE LET ticket == TicketAt(sender, ticketIndex)
             IN  /\ playerScores' = [playerScores EXCEPT ![sender] =
                                       NextScore(ticket, playerScores[sender])]
                 /\ playerTickets' = [playerTickets EXCEPT ![sender] =
                                       MarkClaimed(playerTickets[sender],
                                                   ticketIndex)]
                 /\ events' = Emit(TicketClaimProcessed(sender, ticket.drawId,
                                                        ticketIndex))
                 /\ acl' = acl \cup ClaimGrants(sender)
                 /\ ciphertexts' = ciphertexts \cup
                       ClaimCiphertexts(sender,
                                        NextScore(ticket, playerScores[sender]))
                 /\ lastCall' = Call("claimTicket", sender, 0, ticketIndex, OK, 0)
                 /\ UNCHANGED <<scoreInitialized, draws, currentDrawId,
                                balance>>

----------------------------------------------------------------------------
(* The calls the environment makes.  block.timestamp never decreases from  *)
(* one block to the next, and the timestamp the contract read last is the  *)
(* executedAt of the active draw.                                          *)

CallsDone == BagCardinality(events)

(* the sender encrypts a number for every purchase, as the clients do *)
BuyTicketCall ==
    \E sender \in Players, n \in TicketNumbers, proofValid \in BOOLEAN,
       value \in Payments :
        /\ CallsDone < MaxCalls
        /\ buyTicket(sender, NewInput(sender, n), proofValid, value)
        /\ UNCHANGED <<ui, cli>>

ExecuteDrawCall ==
    \E sender \in Players, randomness \in RandomnessValues,
       blockTimestamp \in Timestamps :
        /\ CallsDone < MaxCalls
        /\ blockTimestamp >= draws[currentDrawId].executedAt
        /\ executeDraw(sender, randomness, blockTimestamp)
        /\ UNCHANGED <<ui, cli>>

ClaimTicketCall ==
    \E sender \in Players, ticketIndex \in TicketIndexes :
        /\ CallsDone < MaxCalls
        /\ claimTicket(sender, ticketIndex)
        /\ UNCHANGED <<ui, cli>>

Next == BuyTicketCall \/ ExecuteDrawCall \/ ClaimTicketCall

Spec == Init /\ [][Next]_vars

----------------------------------------------------------------------------
(* The full cycle of the test "stores encrypted tickets and awards score   *)
(* to winners": alice buys one ticket for each number MIN_NUMBER ..        *)
(* MAX_NUMBER, in this order, all in draw 1; bob executes the draw, with   *)
(* any outcome; alice claims her tickets, one by one, in any order.        *)

FullCyclePlayer == "alice"
FullCycleRandomness == 0 .. (MAX_NUMBER - 1)
FullCycleIndexes == 0 .. (MAX_NUMBER - MIN_NUMBER)

FullCycleBuy ==
    /\ currentDrawId = 1
    /\ totalTickets(FullCyclePlayer) <= MAX_NUMBER - MIN_NUMBER
    /\ buyTicket(FullCyclePlayer,
                 NewInput(FullCyclePlayer,
                          MIN_NUMBER + totalTickets(FullCyclePlayer)),
                 TRUE, TICKET_PRICE)
    /\ UNCHANGED <<ui, cli>>

FullCycleDraw ==
    \E randomness \in FullCycleRandomness, blockTimestamp \in Timestamps :
        /\ currentDrawId = 1
        /\ totalTickets(FullCyclePlayer) = MAX_NUMBER - MIN_NUMBER + 1
        /\ blockTimestamp >= draws[currentDrawId].executedAt
        /\ executeDraw("bob", randomness, blockTimestamp)
        /\ UNCHANGED <<ui, cli>>

FullCycleClaim ==
    \E ticketIndex \in FullCycleIndexes :
        /\ currentDrawId = 2
        /\ ~TicketAt(FullCyclePlayer, ticketIndex).claimed
        /\ claimTicket(FullCyclePlayer, ticketIndex)
        /\ UNCHANGED <<ui, cli>>

FullCycleNext == FullCycleBuy \/ FullCycleDraw \/ FullCycleClaim

SpecFullCycle == Init /\ [][FullCycleNext]_vars

----------------------------------------------------------------------------
(* Purchases sent to the contract directly, without the range check of the *)
(* clients: the ciphertext is an euint8 with a valid proof, and its        *)
(* plaintext is any 8-bit value.                                           *)

OutOfDomainNumbers == {0, MAX_NUMBER + 1, 255}

BuyOutOfDomainCall ==
    \E sender \in Players, n \in OutOfDomainNumbers :
        /\ CallsDone < MaxCalls
        /\ buyTicket(sender, NewInput(sender, n), TRUE, TICKET_PRICE)
        /\ UNCHANGED <<ui, cli>>

NextAnyNumber == BuyOutOfDomainCall \/ ExecuteDrawCall \/ ClaimTicketCall

SpecAnyNumber == Init /\ [][NextAnyNumber]_vars

----------------------------------------------------------------------------
(* Purchases sent to the contract directly, with any input: the sender     *)
(* passes an input encrypted anew or one passed before, its own or another *)
(* player's.  The proof of an input is valid for the user the input was    *)
(* encrypted for and for no other sender.                                  *)

BuyAnyInputCall ==
    \E sender \in Players, user \in Players, proofValid \in BOOLEAN :
        \E encryptedNumber \in {NewInput(user, n) : n \in TicketNumbers}
                                  \cup StoredInputs(user) :
            /\ CallsDone < MaxCalls
            /\ proofValid => user = sender
            /\ buyTicket(sender, encryptedNumber, proofValid, TICKET_PRICE)
            /\ UNCHANGED <<ui, cli>>

NextAnyInput == BuyAnyInputCall \/ ExecuteDrawCall \/ ClaimTicketCall

SpecAnyInput == Init /\ [][NextAnyInput]_vars

----------------------------------------------------------------------------
(* The steps of the web client.  The page talks to the chain through the    *)
(* wallet of UiAddress; the transactions of others are draws executed by    *)
(* another account.  The player picks the number 9, and every draw is       *)
(* resolved at the same block time with the same randomness.  At most       *)
(* MaxRuns handlers are started, at most MaxInFlight of them run at a time  *)
(* and at most MaxUiCalls transactions are mined.  Every read of a query in *)
(* flight resolves in a step of its own, on the contract as it is then.     *)

MaxUiCalls == 3
MaxInFlight == 2
MaxRuns == 3

UiNumbers == {9}
UiRandomness == {8}
UiTimestamps == {2}
OtherSender == "bob"

ErrSelectNumber == "Select a number before purchasing"
ErrNotReady == "Encryption service not ready yet"
ErrNoSigner == "Wallet signer is not available"
ErrConnectDraw == "Connect your wallet to execute the draw"
ErrConnectClaim == "Connect your wallet to claim a ticket"
ErrNotInitialized == "Encryption service not initialized"
ErrNotConnected == "Wallet not connected"
(* what ethers throws when the wallet refuses to sign or to send, when the  *)
(* receipt of a mined transaction cannot be read and when the transaction   *)
(* it waits for has reverted                                                *)
ErrRejected == "user rejected action"
ErrWait == "could not read the receipt"
ErrCallException == "transaction execution reverted"
(* what the decryption service throws for a handle not granted to the user *)
ErrDecrypt == "user decryption failed"

(* a thrown value, and the text the page shows for it *)
Error(message) == [isError |-> TRUE, message |-> message]
parseError(error) ==
    IF error.isError THEN error.message ELSE "Unexpected error occurred"

(* a step of the page alone *)
UiStep(page) ==
    /\ ui' = page
    /\ UNCHANGED <<storage, events, balance, acl, ciphertexts, cli, lastCall>>

buyLoading == ui.buy.pc # "idle"
drawLoading == ui.draw.pc # "idle"
claimLoading(index) == \E c \in ui.claim : c.index = index
decryptingScore == ui.decryptScore.pc # "idle"
ticketLoading(index) == \E d \in ui.decryptTicket : d.index = index

(* the first step of a handler: one more run has started *)
Started(page) == UiStep([page EXCEPT !.runs = @ + 1])

(* the handlers that have started and not ended *)
InFlight ==
    (IF buyLoading THEN 1 ELSE 0) + (IF drawLoading THEN 1 ELSE 0)
      + (IF decryptingScore THEN 1 ELSE 0)
      + Cardinality(ui.claim) + Cardinality(ui.decryptTicket)

(* the player loads the page again, while no handler runs *)
mount ==
    /\ InFlight = 0
    /\ ui # [UiMounted EXCEPT !.runs = ui.runs]
    /\ UiStep([UiMounted EXCEPT !.runs = ui.runs])

(* the hooks: the encryption instance ends loading, ready or failed, and    *)
(* the signer of the connected wallet resolves                              *)
useZamaInstance ==
    /\ ui.zama = "loading"
    /\ \E zama \in {"ready", "failed"} : UiStep([ui EXCEPT !.zama = zama])

useEthersSigner ==
    /\ ~ui.signerPromise
    /\ UiStep([ui EXCEPT !.signerPromise = TRUE])

setSelectedNumber ==
    \E number \in UiNumbers :
        /\ ui.selectedNumber # <<number>>
        /\ UiStep([ui EXCEPT !.selectedNumber = <<number>>])

(* the enabled option of a query, on the data the page holds *)
QueryEnabled(page, query) ==
    CASE query = "activeDraw" -> page.currentDrawId # <<>>
      [] query = "previousDraw" ->
           page.currentDrawId # <<>> /\ page.currentDrawId[1] > 1
      [] query = "ticket-draws" -> ticketDrawIds(page.tickets) # {}
      [] OTHER -> TRUE

(* invalidateQueries: the enabled queries among those named fetch again *)
Invalidated(page, queries) == {q \in queries : QueryEnabled(page, q)}

(* the read of a query in flight resolves on the contract as it is then,    *)
(* under the key of the render that started it.  A new currentDrawId is a   *)
(* new key of activeDraw and previousDraw, other draw ids of the tickets a  *)
(* new key of ticket-draws: the page holds no data under a new key, the     *)
(* query fetches under it when it is enabled, and the read of the old key   *)
(* is no longer observed.  The handlers that await the refetch go on.       *)
Fetched(page, query) ==
    LET drawId == IF query = "currentDrawId" THEN <<currentDrawId>>
                  ELSE page.currentDrawId
        tickets == IF query = "tickets" THEN FetchTickets(getTickets(UiAddress))
                   ELSE page.tickets
        newDraw == drawId # page.currentDrawId
        newIds == ticketDrawIds(tickets) # ticketDrawIds(page.tickets)
        next == [page EXCEPT !.currentDrawId = drawId, !.tickets = tickets]
        dropped == {query}
                     \cup (IF newDraw THEN {"activeDraw", "previousDraw"} ELSE {})
                     \cup (IF newIds THEN {"ticket-draws"} ELSE {})
    IN  [next EXCEPT
           !.scoreHandle = IF query = "score"
                           THEN <<getScoreHandle(UiAddress)>> ELSE @,
           !.activeDraw =
               IF newDraw THEN <<>>
               ELSE IF query = "activeDraw"
                    THEN <<normalizeDraw(getDraw(page.currentDrawId[1]))>>
               ELSE @,
           !.previousDraw =
               IF newDraw THEN <<>>
               ELSE IF query = "previousDraw"
                    THEN <<normalizeDraw(getDraw(page.currentDrawId[1] - 1))>>
               ELSE @,
           !.historicalDraws =
               IF newIds THEN <<>>
               ELSE IF query = "ticket-draws" THEN page.entries
               ELSE @,
           !.entries = IF newIds \/ query = "ticket-draws" THEN <<>> ELSE @,
           !.fetching =
               (@ \ dropped)
                 \cup (IF newDraw
                       THEN Invalidated(next, {"activeDraw", "previousDraw"})
                       ELSE {})
                 \cup (IF newIds THEN Invalidated(next, {"ticket-draws"})
                       ELSE {}),
           !.buy.awaiting = @ \ dropped,
           !.draw.awaiting = @ \ dropped,
           !.claim = {[c EXCEPT !.awaiting = @ \ dropped] : c \in @}]

(* queryFn of ['ticket-draws', ..]: one getDraw read for each draw id of    *)
(* the tickets, each resolving on the contract as it is then; the query     *)
(* resolves with the last of them                                           *)
ReadTicketDraw(page, id) ==
    LET ids == DOMAIN page.entries \cup {id}
        read == [page EXCEPT
                   !.entries = [j \in ids |->
                                  IF j = id THEN normalizeDraw(getDraw(id))
                                  ELSE page.entries[j]]]
    IN  IF ids = ticketDrawIds(page.tickets) THEN Fetched(read, "ticket-draws")
        ELSE read

queryFn ==
    \E query \in ui.fetching :
        IF query = "ticket-draws"
        THEN \E id \in ticketDrawIds(ui.tickets) \ DOMAIN ui.entries :
                UiStep(ReadTicketDraw(ui, id))
        ELSE UiStep(Fetched(ui, query))

(* catch and finally of handleBuyTicket *)
BuyCaught(error) ==
    [ui EXCEPT !.errorMessage = parseError(error), !.buy = Idle]

(* handleBuyTicket up to its first wait *)
handleBuyTicket ==
    /\ ~buyLoading
    /\ InFlight < MaxInFlight
    /\ ui.runs < MaxRuns
    /\ Started(IF ui.selectedNumber = <<>>
              THEN [ui EXCEPT !.errorMessage = ErrSelectNumber]
              ELSE IF ui.zama # "ready"
                   THEN [ui EXCEPT !.errorMessage = ErrNotReady]
              ELSE IF ~ui.signerPromise
                   THEN [ui EXCEPT !.errorMessage = ErrNoSigner]
              ELSE [ui EXCEPT
                      !.errorMessage = "",
                      !.buy = Process("send", ui.selectedNumber[1], {})])

(* the Buy Ticket button is enabled and pressed *)
BuyTicketClick ==
    /\ ui.zama = "ready"
    /\ ui.selectedNumber # <<>>
    /\ handleBuyTicket

(* the number is encrypted and contract.buyTicket resolves: the wallet      *)
(* refuses, the call is found to revert, or the transaction is sent         *)
handleBuyTicketSend ==
    /\ ui.buy.pc = "send"
    /\ \E accepted \in BOOLEAN :
          UiStep(IF ~accepted THEN BuyCaught(Error(ErrRejected))
                 ELSE IF BuyTicketCheck(TICKET_PRICE, TRUE) # OK
                      THEN BuyCaught(Error(BuyTicketCheck(TICKET_PRICE, TRUE)))
                 ELSE [ui EXCEPT !.buy.pc = "pending"])

(* the transaction of handleBuyTicket is mined *)
buyTicketMined ==
    /\ ui.buy.pc = "pending"
    /\ CallsDone < MaxUiCalls
    /\ buyTicket(UiAddress, NewInput(UiAddress, ui.buy.arg), TRUE,
                 TICKET_PRICE)
    /\ ui' = [ui EXCEPT
                !.buy.pc = IF lastCall'.result = OK THEN "mined" ELSE "reverted"]
    /\ UNCHANGED cli

(* tx.wait() resolves and the tickets and the score are invalidated, or it  *)
(* rejects                                                                  *)
handleBuyTicketWait ==
    /\ ui.buy.pc \in {"mined", "reverted"}
    /\ \E confirmed \in BOOLEAN :
          UiStep(IF ui.buy.pc = "reverted"
                 THEN BuyCaught(Error(ErrCallException))
                 ELSE IF ~confirmed THEN BuyCaught(Error(ErrWait))
                 ELSE [ui EXCEPT
                         !.selectedNumber = <<>>,
                         !.fetching =
                             @ \cup Invalidated(ui, {"tickets", "score"}),
                         !.buy = Process("refetch", ui.buy.arg,
                                     Invalidated(ui, {"tickets", "score"}))])

(* the refetches have resolved: finally *)
handleBuyTicketDone ==
    /\ ui.buy.pc = "refetch"
    /\ ui.buy.awaiting = {}
    /\ UiStep([ui EXCEPT !.buy = Idle])

(* catch and finally of handleExecuteDraw *)
DrawCaught(error) ==
    [ui EXCEPT !.errorMessage = parseError(error), !.draw = Idle]

(* handleExecuteDraw up to its first wait *)
handleExecuteDraw ==
    /\ ~drawLoading
    /\ InFlight < MaxInFlight
    /\ ui.runs < MaxRuns
    /\ Started(IF ~ui.signerPromise
              THEN [ui EXCEPT !.errorMessage = ErrConnectDraw]
              ELSE [ui EXCEPT
                      !.errorMessage = "",
                      !.draw = Process("send", 0, {})])

handleExecuteDrawSend ==
    /\ ui.draw.pc = "send"
    /\ \E accepted \in BOOLEAN :
          UiStep(IF ~accepted THEN DrawCaught(Error(ErrRejected))
                 ELSE IF ExecuteDrawCheck # OK
                      THEN DrawCaught(Error(ExecuteDrawCheck))
                 ELSE [ui EXCEPT !.draw.pc = "pending"])

(* the transaction of handleExecuteDraw is mined *)
executeDrawMined ==
    \E randomness \in UiRandomness, blockTimestamp \in UiTimestamps :
        /\ ui.draw.pc = "pending"
        /\ CallsDone < MaxUiCalls
        /\ blockTimestamp >= draws[currentDrawId].executedAt
        /\ executeDraw(UiAddress, randomness, blockTimestamp)
        /\ ui' = [ui EXCEPT
                    !.draw.pc = IF lastCall'.result = OK THEN "mined"
                                ELSE "reverted"]
        /\ UNCHANGED cli

(* the queries handleExecuteDraw invalidates *)
DrawInvalidations == {"currentDrawId", "tickets", "activeDraw", "previousDraw"}

handleExecuteDrawWait ==
    /\ ui.draw.pc \in {"mined", "reverted"}
    /\ \E confirmed \in BOOLEAN :
          UiStep(IF ui.draw.pc = "reverted"
                 THEN DrawCaught(Error(ErrCallException))
                 ELSE IF ~confirmed THEN DrawCaught(Error(ErrWait))
                 ELSE [ui EXCEPT
                         !.fetching = @ \cup Invalidated(ui, DrawInvalidations),
                         !.draw = Process("refetch", 0,
                                      Invalidated(ui, DrawInvalidations))])

handleExecuteDrawDone ==
    /\ ui.draw.pc = "refetch"
    /\ ui.draw.awaiting = {}
    /\ UiStep([ui EXCEPT !.draw = Idle])

(* a running handleClaimTicket *)
Claiming(index, pc, awaiting) ==
    [index |-> index, pc |-> pc, awaiting |-> awaiting]

(* catch and finally of handleClaimTicket *)
ClaimCaught(c, error) ==
    [ui EXCEPT !.errorMessage = parseError(error), !.claim = @ \ {c}]

(* handleClaimTicket up to its first wait *)
handleClaimTicket(ticket) ==
    /\ ~claimLoading(ticket.index)
    /\ InFlight < MaxInFlight
    /\ ui.runs < MaxRuns
    /\ Started(IF ~ui.signerPromise
              THEN [ui EXCEPT !.errorMessage = ErrConnectClaim]
              ELSE [ui EXCEPT
                      !.errorMessage = "",
                      !.claim = @ \cup {Claiming(ticket.index, "send", {})}])

(* the Claim Reward button of a ticket is enabled and pressed *)
ClaimTicketClick ==
    \E k \in 1 .. Len(ui.tickets) :
        /\ ~ui.tickets[k].claimed
        /\ handleClaimTicket(ui.tickets[k])

handleClaimTicketSend ==
    \E c \in ui.claim, accepted \in BOOLEAN :
        /\ c.pc = "send"
        /\ UiStep(IF ~accepted THEN ClaimCaught(c, Error(ErrRejected))
                  ELSE IF ClaimTicketCheck(UiAddress, c.index) # OK
                       THEN ClaimCaught(c,
                                Error(ClaimTicketCheck(UiAddress, c.index)))
                  ELSE [ui EXCEPT
                          !.claim = (@ \ {c})
                                      \cup {Claiming(c.index, "pending", {})}])

(* the transaction of handleClaimTicket is mined *)
claimTicketMined ==
    \E c \in ui.claim :
        /\ c.pc = "pending"
        /\ CallsDone < MaxUiCalls
        /\ claimTicket(UiAddress, c.index)
        /\ ui' = [ui EXCEPT
                    !.claim = (@ \ {c}) \cup
                        {Claiming(c.index,
                                  IF lastCall'.result = OK THEN "mined"
                                  ELSE "reverted", {})}]
        /\ UNCHANGED cli

handleClaimTicketWait ==
    \E c \in ui.claim, confirmed \in BOOLEAN :
        /\ c.pc \in {"mined", "reverted"}
        /\ UiStep(IF c.pc = "reverted"
                  THEN ClaimCaught(c, Error(ErrCallException))
                  ELSE IF ~confirmed THEN ClaimCaught(c, Error(ErrWait))
                  ELSE [ui EXCEPT
                          !.fetching =
                              @ \cup Invalidated(ui, {"tickets", "score"}),
                          !.claim = (@ \ {c}) \cup
                              {Claiming(c.index, "refetch",
                                        Invalidated(ui, {"tickets", "score"}))}])

handleClaimTicketDone ==
    \E c \in ui.claim :
        /\ c.pc = "refetch"
        /\ c.awaiting = {}
        /\ UiStep([ui EXCEPT !.claim = @ \ {c}])

(* a draw executed by another account *)
ExecuteDrawByOther ==
    \E randomness \in UiRandomness, blockTimestamp \in UiTimestamps :
        /\ CallsDone < MaxUiCalls
        /\ blockTimestamp >= draws[currentDrawId].executedAt
        /\ executeDraw(OtherSender, randomness, blockTimestamp)
        /\ UNCHANGED <<ui, cli>>

----------------------------------------------------------------------------
(* Reading encrypted values from a client.  A user decryption returns the   *)
(* clear value of the ciphertext the handle names when the handle is        *)
(* granted to the user and to the contract, and fails otherwise.            *)

DecryptRequest(handle, user) == [handle |-> handle, user |-> user]

userDecrypt(handle, user) ==
    IF {FHE_allow(handle, user), FHE_allowThis(handle)} \subseteq acl
    THEN <<ClearOf(handle)>>
    ELSE <<>>

(* requestUserDecrypt before its first wait: what it throws *)
requestUserDecryptThrows ==
    IF ui.zama # "ready" THEN <<Error(ErrNotInitialized)>>
    ELSE IF ~ui.signerPromise THEN <<Error(ErrNotConnected)>>
    ELSE <<>>

(* faulty variant of handleDecryptScoreResult: the zero handle is sent to  *)
(* the decryption service like any other                                   *)
handleDecryptScoreResultNoZeroCheck(scoreHandle) ==
    IF scoreHandle = <<>>
    THEN [ui EXCEPT !.decryptedScore = <<0>>]
    ELSE IF requestUserDecryptThrows # <<>>
         THEN [ui EXCEPT
                 !.errorMessage = parseError(requestUserDecryptThrows[1])]
    ELSE [ui EXCEPT
            !.errorMessage = "",
            !.decryptScore = Decrypting("request", scoreHandle[1])]

(* the page after handleDecryptScore has run, up to its first wait, on the  *)
(* scoreHandle of the render                                                *)
handleDecryptScoreResult(scoreHandle) ==
    IF scoreHandle = <<>> \/ scoreHandle[1] = ZeroHash
    THEN [ui EXCEPT !.decryptedScore = <<0>>]
    ELSE IF requestUserDecryptThrows # <<>>
         THEN [ui EXCEPT
                 !.errorMessage = parseError(requestUserDecryptThrows[1])]
    ELSE [ui EXCEPT
            !.errorMessage = "",
            !.decryptScore = Decrypting("request", scoreHandle[1])]

handleDecryptScore ==
    /\ ~decryptingScore
    /\ InFlight < MaxInFlight
    /\ ui.runs < MaxRuns
    /\ Started(handleDecryptScoreResult(ui.scoreHandle))

(* the Decrypt Score button is enabled and pressed *)
DecryptScoreClick ==
    /\ ui.zama # "loading"
    /\ handleDecryptScore

(* requestUserDecrypt after its first wait: the wallet signs the request or *)
(* refuses, and the service answers                                         *)
handleDecryptScoreAnswer ==
    /\ ui.decryptScore.pc = "request"
    /\ \E signed \in BOOLEAN :
          LET handle == ui.decryptScore.handle
              result == userDecrypt(handle, UiAddress)
          IN  UiStep(IF ~signed
                     THEN [ui EXCEPT
                             !.errorMessage = parseError(Error(ErrRejected)),
                             !.decryptScore = NotDecrypting]
                     ELSE [ui EXCEPT
                             !.decryptRequests =
                                 <<DecryptRequest(handle, UiAddress)>>,
                             !.decryptedScore =
                                 IF result = <<>> THEN @ ELSE result,
                             !.errorMessage =
                                 IF result = <<>>
                                 THEN parseError(Error(ErrDecrypt)) ELSE @,
                             !.decryptScore = NotDecrypting])

(* a decrypted ticket number of the page *)
TicketDecryption(index, value) == [index |-> index, value |-> value]

(* a running handleDecryptTicket *)
DecryptingTicket(index, handle) == [index |-> index, handle |-> handle]

(* handleDecryptTicket up to its first wait *)
handleDecryptTicket(ticket) ==
    /\ ~ticketLoading(ticket.index)
    /\ InFlight < MaxInFlight
    /\ ui.runs < MaxRuns
    /\ Started(IF ticket.handle = ZeroHash
              THEN [ui EXCEPT
                      !.ticketDecryptions =
                          {t \in @ : t.index # ticket.index}
                            \cup {TicketDecryption(ticket.index, 0)}]
              ELSE IF requestUserDecryptThrows # <<>>
                   THEN [ui EXCEPT
                           !.errorMessage =
                               parseError(requestUserDecryptThrows[1])]
              ELSE [ui EXCEPT
                      !.errorMessage = "",
                      !.decryptTicket =
                          @ \cup {DecryptingTicket(ticket.index, ticket.handle)}])

(* the Decrypt Ticket button of a ticket is enabled and pressed *)
DecryptTicketClick ==
    \E k \in 1 .. Len(ui.tickets) :
        /\ ui.zama # "loading"
        /\ handleDecryptTicket(ui.tickets[k])

handleDecryptTicketAnswer ==
    \E d \in ui.decryptTicket, signed \in BOOLEAN :
        LET result == userDecrypt(d.handle, UiAddress)
        IN  UiStep(IF ~signed
                   THEN [ui EXCEPT
                           !.errorMessage = parseError(Error(ErrRejected)),
                           !.decryptTicket = @ \ {d}]
                   ELSE IF result = <<>>
                        THEN [ui EXCEPT
                                !.errorMessage = parseError(Error(ErrDecrypt)),
                                !.decryptTicket = @ \ {d}]
                   ELSE [ui EXCEPT
                           !.ticketDecryptions =
                               {t \in @ : t.index # d.index}
                                 \cup {TicketDecryption(d.index, result[1])},
                           !.decryptTicket = @ \ {d}])

NextUi ==
    \/ mount
    \/ useZamaInstance
    \/ useEthersSigner
    \/ setSelectedNumber
    \/ queryFn
    \/ BuyTicketClick
    \/ handleBuyTicketSend
    \/ buyTicketMined
    \/ handleBuyTicketWait
    \/ handleBuyTicketDone
    \/ handleExecuteDraw
    \/ handleExecuteDrawSend
    \/ executeDrawMined
    \/ handleExecuteDrawWait
    \/ handleExecuteDrawDone
    \/ ClaimTicketClick
    \/ handleClaimTicketSend
    \/ claimTicketMined
    \/ handleClaimTicketWait
    \/ handleClaimTicketDone
    \/ DecryptScoreClick
    \/ handleDecryptScoreAnswer
    \/ DecryptTicketClick
    \/ handleDecryptTicketAnswer
    \/ ExecuteDrawByOther

SpecUi == Init /\ [][NextUi]_vars

----------------------------------------------------------------------------
(* The tasks.  A task throws before it encrypts or sends anything when its  *)
(* parameter fails the check.  Otherwise it runs in steps, one for each     *)
(* wait on the chain or on the decryption service; the waits that read      *)
(* nothing of the contract (the plugin, the deployment, the signers) belong *)
(* to the step before them.  A task signs with the first account of the     *)
(* network and talks to the address it is given, or else to the deployment  *)
(* of the network; the address given is that of the contract.  Tasks are    *)
(* run one at a time: a run ends, and its outcome is gone, before the next  *)
(* starts.  Meanwhile another account executes draws.  Every draw is        *)
(* resolved at the same block time with the same randomness.                *)

MaxCliCalls == 3

CliSigner == "bob"
CliOther == "alice"
CliRandomness == {8}
CliTimestamps == {2}
(* --address is left out, is given as the empty text or names the contract *)
CliAddresses == {<<>>, <<"">>, <<Contract>>}

(* args.address ? { address: args.address } : await deployments.get(..):   *)
(* an address that is undefined or the empty text is falsy                 *)
Deployment(address) ==
    IF address # <<>> /\ address[1] # "" THEN address[1] ELSE Contract

(* a step of a task alone *)
CliStep(run) ==
    /\ cli' = run
    /\ UNCHANGED <<storage, events, balance, acl, ciphertexts, ui, lastCall>>

(* luckyball:buy up to contract.buyTicket: the check and the encryption *)
buyTask(signer, arg, address) ==
    LET choice == Number(arg)
        run == CliRun("luckyball:buy", signer, arg, Deployment(address))
    IN  CliStep(IF ~Number_isInteger(choice) \/ LessThan(choice, 1)
                     \/ GreaterThan(choice, 9)
                THEN [run EXCEPT !.error = ErrNumberArg]
                ELSE [run EXCEPT !.pc = "send",
                                 !.encrypted = <<IntegerOf(choice)>>])

(* contract.buyTicket resolves: the call is found to revert, or the        *)
(* transaction is sent                                                     *)
buyTaskSend ==
    /\ cli.task = "luckyball:buy"
    /\ cli.pc = "send"
    /\ CliStep(IF BuyTicketCheck(TICKET_PRICE, TRUE) # OK
               THEN [cli EXCEPT !.pc = "done",
                                !.error = BuyTicketCheck(TICKET_PRICE, TRUE)]
               ELSE [cli EXCEPT !.pc = "pending", !.sent = TRUE])

(* the transaction of luckyball:buy is mined *)
buyTaskMined ==
    /\ cli.task = "luckyball:buy"
    /\ cli.pc = "pending"
    /\ cli.contract = Contract
    /\ buyTicket(cli.signer, NewInput(cli.signer, cli.encrypted[1]), TRUE,
                 TICKET_PRICE)
    /\ cli' = [cli EXCEPT
                 !.pc = IF lastCall'.result = OK THEN "mined" ELSE "reverted"]
    /\ UNCHANGED ui

(* tx.wait() of a task resolves and the status is printed, or it rejects *)
Waited(run) ==
    IF run.pc = "reverted"
    THEN [run EXCEPT !.pc = "done", !.error = ErrCallException]
    ELSE [run EXCEPT !.pc = "done", !.output = <<1>>]

buyTaskWait ==
    /\ cli.task = "luckyball:buy"
    /\ cli.pc \in {"mined", "reverted"}
    /\ CliStep(Waited(cli))

(* luckyball:draw up to contract.executeDraw *)
drawTask(signer, address) ==
    CliStep([CliRun("luckyball:draw", signer, <<>>, Deployment(address))
               EXCEPT !.pc = "send"])

drawTaskSend ==
    /\ cli.task = "luckyball:draw"
    /\ cli.pc = "send"
    /\ CliStep(IF ExecuteDrawCheck # OK
               THEN [cli EXCEPT !.pc = "done", !.error = ExecuteDrawCheck]
               ELSE [cli EXCEPT !.pc = "pending", !.sent = TRUE])

(* the transaction of luckyball:draw is mined *)
drawTaskMined ==
    \E randomness \in CliRandomness, blockTimestamp \in CliTimestamps :
        /\ cli.task = "luckyball:draw"
        /\ cli.pc = "pending"
        /\ cli.contract = Contract
        /\ blockTimestamp >= draws[currentDrawId].executedAt
        /\ executeDraw(cli.signer, randomness, blockTimestamp)
        /\ cli' = [cli EXCEPT
                     !.pc = IF lastCall'.result = OK THEN "mined"
                            ELSE "reverted"]
        /\ UNCHANGED ui

drawTaskWait ==
    /\ cli.task = "luckyball:draw"
    /\ cli.pc \in {"mined", "reverted"}
    /\ CliStep(Waited(cli))

(* luckyball:claim up to contract.claimTicket: the check *)
claimTask(signer, arg, address) ==
    LET index == Number(arg)
        run == CliRun("luckyball:claim", signer, arg, Deployment(address))
    IN  CliStep(IF ~Number_isInteger(index) \/ LessThan(index, 0)
                THEN [run EXCEPT !.error = ErrIndexArg]
                ELSE [run EXCEPT !.pc = "send"])

(* contract.claimTicket(index) resolves: the index does not fit a uint256   *)
(* argument, the call is found to revert, or the transaction is sent        *)
claimTaskSend ==
    /\ cli.task = "luckyball:claim"
    /\ cli.pc = "send"
    /\ LET index == Number(cli.arg)
       IN  CliStep(IF ~IsSafeInteger(index)
                   THEN [cli EXCEPT !.pc = "done", !.error = ErrOverflow]
                   ELSE IF ClaimTicketCheck(cli.signer, IntegerOf(index)) # OK
                        THEN [cli EXCEPT
                                !.pc = "done",
                                !.error = ClaimTicketCheck(cli.signer,
                                                           IntegerOf(index))]
                   ELSE [cli EXCEPT !.pc = "pending", !.sent = TRUE])

(* the transaction of luckyball:claim is mined *)
claimTaskMined ==
    /\ cli.task = "luckyball:claim"
    /\ cli.pc = "pending"
    /\ cli.contract = Contract
    /\ claimTicket(cli.signer, IntegerOf(Number(cli.arg)))
    /\ cli' = [cli EXCEPT
                 !.pc = IF lastCall'.result = OK THEN "mined" ELSE "reverted"]
    /\ UNCHANGED ui

claimTaskWait ==
    /\ cli.task = "luckyball:claim"
    /\ cli.pc \in {"mined", "reverted"}
    /\ CliStep(Waited(cli))

(* luckyball:score up to the decryption: getScore is read and compared     *)
(* with ZeroHash                                                           *)
scoreTask(signer, address) ==
    LET encryptedScore == getScoreHandle(signer)
        run == CliRun("luckyball:score", signer, <<>>, Deployment(address))
    IN  CliStep(IF encryptedScore = ZeroHash
                THEN [run EXCEPT !.output = <<0>>]
                ELSE [run EXCEPT !.pc = "decrypt", !.handle = encryptedScore])

(* fhevm.userDecryptEuint resolves on the handle read before *)
scoreTaskDecrypt ==
    /\ cli.task = "luckyball:score"
    /\ cli.pc = "decrypt"
    /\ LET clearScore == userDecrypt(cli.handle, cli.signer)
       IN  CliStep([cli EXCEPT
                      !.pc = "done",
                      !.requests = <<DecryptRequest(cli.handle, cli.signer)>>,
                      !.error = IF clearScore = <<>> THEN ErrDecrypt ELSE "",
                      !.output = clearScore])

BuyTaskCall ==
    /\ cli = CliIdle
    /\ CallsDone < MaxCliCalls
    /\ \E arg \in CliArgs, address \in CliAddresses : buyTask(CliSigner, arg, address)

DrawTaskCall ==
    /\ cli = CliIdle
    /\ CallsDone < MaxCliCalls
    /\ \E address \in CliAddresses : drawTask(CliSigner, address)

ClaimTaskCall ==
    /\ cli = CliIdle
    /\ CallsDone < MaxCliCalls
    /\ \E arg \in CliArgs, address \in CliAddresses : claimTask(CliSigner, arg, address)

ScoreTaskCall ==
    /\ cli = CliIdle
    /\ \E signer \in Players, address \in CliAddresses :
           scoreTask(signer, address)

(* the hardhat process of the run ends *)
TaskExit ==
    /\ cli.pc = "done"
    /\ CliStep(CliIdle)

(* a draw executed by another account while the tasks run *)
ExecuteDrawByOtherCli ==
    \E randomness \in CliRandomness, blockTimestamp \in CliTimestamps :
        /\ CallsDone < MaxCliCalls
        /\ blockTimestamp >= draws[currentDrawId].executedAt
        /\ executeDraw(CliOther, randomness, blockTimestamp)
        /\ UNCHANGED <<ui, cli>>

NextCli ==
    \/ BuyTaskCall
    \/ buyTaskSend
    \/ buyTaskMined
    \/ buyTaskWait
    \/ DrawTaskCall
    \/ drawTaskSend
    \/ drawTaskMined
    \/ drawTaskWait
    \/ ClaimTaskCall
    \/ claimTaskSend
    \/ claimTaskMined
    \/ claimTaskWait
    \/ ScoreTaskCall
    \/ scoreTaskDecrypt
    \/ TaskExit
    \/ ExecuteDrawByOtherCli

SpecCli == Init /\ [][NextCli]_vars

(* The page and the score task with no other account at work: the player   *)
(* buys, resolves, claims and decrypts tickets through the page, and reads *)
(* the score through the page and through the task, which runs with the    *)
(* key of either player.                                                   *)

NextClient ==
    \/ mount
    \/ useZamaInstance
    \/ useEthersSigner
    \/ setSelectedNumber
    \/ queryFn
    \/ BuyTicketClick
    \/ handleBuyTicketSend
    \/ buyTicketMined
    \/ handleBuyTicketWait
    \/ handleBuyTicketDone
    \/ handleExecuteDraw
    \/ handleExecuteDrawSend
    \/ executeDrawMined
    \/ handleExecuteDrawWait
    \/ handleExecuteDrawDone
    \/ ClaimTicketClick
    \/ handleClaimTicketSend
    \/ claimTicketMined
    \/ handleClaimTicketWait
    \/ handleClaimTicketDone
    \/ DecryptScoreClick
    \/ handleDecryptScoreAnswer
    \/ DecryptTicketClick
    \/ handleDecryptTicketAnswer
    \/ ScoreTaskCall
    \/ scoreTaskDecrypt
    \/ TaskExit

SpecClient == Init /\ [][NextClient]_vars

----------------------------------------------------------------------------
(* Properties *)

IsClaimed(tickets, player, ticketIndex) ==
    /\ ticketIndex < Len(tickets[player])
    /\ tickets[player][ticketIndex + 1].claimed

(* every TicketClaimProcessed event of the log occurs once and names a      *)
(* claimed ticket and the draw that ticket is bound to (so no two events    *)
(* name the same player and index), and every claimed ticket has its event  *)
ClaimEventsMatch(bag, tickets) ==
    /\ \A e \in BagToSet(bag) :
          e.name = "TicketClaimProcessed" =>
            /\ CopiesIn(e, bag) = 1
            /\ IsClaimed(tickets, e.player, e.ticketIndex)
            /\ tickets[e.player][e.ticketIndex + 1].drawId = e.drawId
    /\ \A p \in Players :
          \A k \in 1 .. Len(tickets[p]) :
            tickets[p][k].claimed =>
              CopiesIn(TicketClaimProcessed(p, tickets[p][k].drawId, k - 1), bag) = 1

(* every DrawExecuted event of the log occurs once and names an executed    *)
(* draw and the winning number stored for it (so no two events name the     *)
(* same draw), and every executed draw has its event                        *)
DrawEventsMatch(bag, drs) ==
    /\ \A e \in BagToSet(bag) :
          e.name = "DrawExecuted" =>
            /\ CopiesIn(e, bag) = 1
            /\ drs[e.drawId].executed
            /\ drs[e.drawId].winningNumber = e.winningNumber
    /\ \A d \in DrawIds :
          drs[d].executed =>
            CopiesIn(DrawExecuted(d, drs[d].winningNumber), bag) = 1

NoEffect == UNCHANGED <<storage, events, balance, acl, ciphertexts>>

(* C1: a successful claimTicket on ticket T of player P adds exactly        *)
(* WIN_REWARD to P's score if T's number equals the winning number of the   *)
(* draw T was bound to at purchase, and leaves P's score value as it was    *)
(* otherwise; T's draw is executed, and no other player's score changes.    *)
C1_RewardCorrectness ==
    [][ (lastCall'.op = "claimTicket" /\ lastCall'.result = OK) =>
          LET p == lastCall'.sender
              t == TicketAt(p, lastCall'.ticketIndex)
              won == (t.number.val = draws[t.drawId].winningNumber)
              before == Uint32Value(playerScores[p].val)
              after == Uint32Value(playerScores'[p].val)
          IN  /\ draws[t.drawId].executed
              /\ won => after = before + WIN_REWARD
              /\ ~won => after = before
              /\ \A q \in Players \ {p} : playerScores'[q] = playerScores[q]
      ]_vars

(* a winning ticket of a draw that is not the latest resolved one, whose    *)
(* number differs from the latest winning number, has just been claimed     *)
C1_Witness ==
    /\ lastCall.op = "claimTicket"
    /\ lastCall.result = OK
    /\ LET t == TicketAt(lastCall.sender, lastCall.ticketIndex)
       IN  /\ t.drawId + 1 < currentDrawId
           /\ t.number.val = draws[t.drawId].winningNumber
           /\ t.number.val # draws[currentDrawId - 1].winningNumber
           /\ Uint32Value(playerScores[lastCall.sender].val) = WIN_REWARD

(* C2: once ticket (P, i) is claimed it stays claimed, every later          *)
(* claimTicket(i) by P fails with "Already processed" and changes nothing,  *)
(* and the log holds exactly one TicketClaimProcessed event for a claimed   *)
(* ticket and none for any other (P, i).                                    *)
C2_ClaimExactlyOnce ==
    [][ /\ \A p \in Players, i \in TicketIndexes :
              IsClaimed(playerTickets, p, i) =>
                /\ IsClaimed(playerTickets', p, i)
                /\ (/\ lastCall'.op = "claimTicket"
                    /\ lastCall'.sender = p
                    /\ lastCall'.ticketIndex = i)
                   => (lastCall'.result = ErrAlreadyProcessed /\ NoEffect)
        /\ ClaimEventsMatch(events', playerTickets')
      ]_vars

(* a second claim of a ticket that won has just been rejected *)
C2_Witness ==
    /\ lastCall.op = "claimTicket"
    /\ lastCall.result = ErrAlreadyProcessed
    /\ IsClaimed(playerTickets, lastCall.sender, lastCall.ticketIndex)
    /\ Uint32Value(playerScores[lastCall.sender].val) = WIN_REWARD

(* C3: among the created draws 1..currentDrawId exactly one is unexecuted,  *)
(* it is draw currentDrawId, and every earlier draw is executed.            *)
C3_ActiveDrawInvariant ==
    /\ currentDrawId >= 1
    /\ ~draws[currentDrawId].executed
    /\ \A d \in 1 .. (currentDrawId - 1) : draws[d].executed
    /\ Cardinality({d \in 1 .. currentDrawId : ~draws[d].executed}) = 1

(* two draws have been resolved, draw 3 is the active one *)
C3_Witness ==
    /\ currentDrawId = 3
    /\ draws[1].executed
    /\ draws[2].executed

(* C4: a successful buyTicket appends a ticket bound to currentDrawId as it *)
(* is at the call, a draw that is unexecuted before and after the call, so  *)
(* no purchase made after draw N was resolved is bound to N; a purchase     *)
(* with the exact price that finds the targeted draw executed fails with    *)
(* "Draw already executed".                                                 *)
C4_PurchaseBindsActiveDraw ==
    [][ lastCall'.op = "buyTicket" =>
          /\ lastCall'.result = OK =>
               LET p == lastCall'.sender
                   new == playerTickets'[p][Len(playerTickets'[p])]
               IN  /\ new.drawId = currentDrawId
                   /\ currentDrawId' = currentDrawId
                   /\ ~draws[new.drawId].executed
                   /\ ~draws'[new.drawId].executed
                   /\ \A d \in 1 .. (currentDrawId - 1) :
                         draws[d].executed /\ new.drawId # d
          /\ (lastCall'.value = TICKET_PRICE /\ draws[currentDrawId].executed)
               => (lastCall'.result = ErrDrawExecuted /\ NoEffect)
      ]_vars

(* a ticket has just been bought after draw 1 was resolved: it is bound to  *)
(* draw 2                                                                   *)
C4_Witness ==
    /\ lastCall.op = "buyTicket"
    /\ lastCall.result = OK
    /\ currentDrawId = 2
    /\ draws[1].executed
    /\ LET ts == playerTickets[lastCall.sender] IN ts[Len(ts)].drawId = 2

(* C5: a successful executeDraw resolves the draw that was active and       *)
(* unexecuted and moves on to a later draw; the record of an executed draw  *)
(* (executed, winningNumber, executedAt) never changes again; the log holds *)
(* exactly one DrawExecuted event per executed draw and none for any other; *)
(* an executeDraw that finds its target executed fails with "Draw already   *)
(* executed".                                                               *)
C5_DrawSingleResolution ==
    [][ /\ \A d \in DrawIds : draws[d].executed => draws'[d] = draws[d]
        /\ (lastCall'.op = "executeDraw" /\ lastCall'.result = OK) =>
              /\ ~draws[currentDrawId].executed
              /\ draws'[currentDrawId].executed
              /\ currentDrawId' > currentDrawId
        /\ (lastCall'.op = "executeDraw" /\ draws[currentDrawId].executed) =>
              (lastCall'.result = ErrDrawExecuted /\ NoEffect)
        /\ DrawEventsMatch(events', draws')
      ]_vars

(* the second draw has just been resolved, at a later time than the first,  *)
(* with another winning number                                              *)
C5_Witness ==
    /\ lastCall.op = "executeDraw"
    /\ lastCall.result = OK
    /\ currentDrawId = 3
    /\ draws[2].executedAt > draws[1].executedAt
    /\ draws[2].winningNumber # draws[1].winningNumber

(* C6: totalTickets(P) grows by one in a successful buyTicket by P and is   *)
(* the same after every other call: a failed buyTicket, a buyTicket of      *)
(* another player, executeDraw, claimTicket.                                *)
C6_PurchaseMonotonicity ==
    [][ \A p \in Players :
          Len(playerTickets'[p]) =
              IF /\ lastCall'.op = "buyTicket"
                 /\ lastCall'.result = OK
                 /\ lastCall'.sender = p
              THEN totalTickets(p) + 1
              ELSE totalTickets(p)
      ]_vars

(* a player has just bought a second ticket while another player holds one *)
C6_Witness ==
    /\ lastCall.op = "buyTicket"
    /\ lastCall.result = OK
    /\ totalTickets(lastCall.sender) = 2
    /\ \E q \in Players \ {lastCall.sender} : totalTickets(q) = 1

(* C7: a buyTicket whose msg.value is not TICKET_PRICE, lower or higher,    *)
(* fails with "Invalid ticket price" and changes nothing: no ticket, no     *)
(* score initialisation, no event, no ether kept; a buyTicket that succeeds *)
(* carried exactly TICKET_PRICE.                                            *)
C7_ExactPayment ==
    [][ lastCall'.op = "buyTicket" =>
          /\ lastCall'.value # TICKET_PRICE =>
                (lastCall'.result = ErrInvalidPrice /\ NoEffect)
          /\ lastCall'.result = OK => lastCall'.value = TICKET_PRICE
      ]_vars

(* an overpaying first purchase has just been rejected: the caller has no   *)
(* ticket and no score                                                      *)
C7_Witness ==
    /\ lastCall.op = "buyTicket"
    /\ lastCall.value > TICKET_PRICE
    /\ lastCall.result = ErrInvalidPrice
    /\ totalTickets(lastCall.sender) = 0
    /\ ~scoreInitialized[lastCall.sender]
    /\ getScore(lastCall.sender) = ZeroHandle32

(* C8: right after construction currentDrawId is 1, draw 1 has been        *)
(* created and is unexecuted, no draw is executed, no player has a ticket   *)
(* and getScore of every player is the zero handle.                         *)
C8_Initialization ==
    lastCall.op = "constructor" =>
        /\ currentDrawId = 1
        /\ ~getDraw(1).executed
        /\ getDraw(1) # EmptyDraw
        /\ \A d \in DrawIds : ~getDraw(d).executed
        /\ \A p \in Players :
              /\ totalTickets(p) = 0
              /\ getScore(p) = ZeroHandle32
              /\ ~getScore(p).init

(* the freshly constructed contract *)
C8_Witness ==
    /\ lastCall.op = "constructor"
    /\ currentDrawId = 1
    /\ events = EmptyBag

(* C9: claimTicket on an existing, unclaimed ticket whose draw is not yet   *)
(* executed fails with "Draw not executed" and changes nothing; hence every *)
(* claimed ticket is bound to an executed draw.                             *)
C9_ClaimNeedsExecutedDraw ==
    [][ /\ lastCall'.op = "claimTicket" =>
              LET p == lastCall'.sender
                  i == lastCall'.ticketIndex
              IN  (/\ i < Len(playerTickets[p])
                   /\ ~TicketAt(p, i).claimed
                   /\ ~draws[TicketAt(p, i).drawId].executed)
                  => /\ lastCall'.result = ErrDrawNotExecuted
                     /\ TicketAt(p, i).drawId = currentDrawId
                     /\ NoEffect
        /\ \A p \in Players, i \in TicketIndexes :
              IsClaimed(playerTickets', p, i) =>
                  draws'[playerTickets'[p][i + 1].drawId].executed
      ]_vars

(* a claim of a ticket of the active draw has just been rejected *)
C9_Witness ==
    /\ lastCall.op = "claimTicket"
    /\ lastCall.result = ErrDrawNotExecuted
    /\ ~IsClaimed(playerTickets, lastCall.sender, lastCall.ticketIndex)
    /\ TicketAt(lastCall.sender, lastCall.ticketIndex).drawId = currentDrawId

(* C10: claimTicket with ticketIndex >= totalTickets(caller) fails with     *)
(* "Invalid ticket index" and changes no ticket, score or draw; a player    *)
(* without tickets has every claim rejected, and no call of such a player   *)
(* changes the value of any score.                                          *)
C10_InvalidIndex ==
    [][ /\ lastCall'.op = "claimTicket" =>
              /\ lastCall'.ticketIndex >= totalTickets(lastCall'.sender) =>
                    (lastCall'.result = ErrInvalidIndex /\ NoEffect)
              /\ totalTickets(lastCall'.sender) = 0 =>
                    (lastCall'.result = ErrInvalidIndex /\ NoEffect)
        /\ totalTickets(lastCall'.sender) = 0 =>
              \A q \in Players : playerScores'[q].val = playerScores[q].val
      ]_vars

(* a player without tickets has just had a claim rejected while another     *)
(* player holds a claimable ticket at that index                            *)
C10_Witness ==
    /\ lastCall.op = "claimTicket"
    /\ lastCall.result = ErrInvalidIndex
    /\ totalTickets(lastCall.sender) = 0
    /\ \E q \in Players :
          /\ lastCall.ticketIndex < totalTickets(q)
          /\ ~TicketAt(q, lastCall.ticketIndex).claimed
          /\ draws[TicketAt(q, lastCall.ticketIndex).drawId].executed

(* C11: a ticket, once created, is never removed or reindexed: under every  *)
(* call each player's ticket array keeps its length or grows, every ticket  *)
(* keeps its index, its drawId and its stored number, and a claimed flag    *)
(* that is set stays set (it only ever goes from false to true).            *)
C11_TicketImmutability ==
    [][ \A p \in Players :
          /\ Len(playerTickets'[p]) >= Len(playerTickets[p])
          /\ \A k \in 1 .. Len(playerTickets[p]) :
                /\ playerTickets'[p][k].drawId = playerTickets[p][k].drawId
                /\ playerTickets'[p][k].number = playerTickets[p][k].number
                /\ playerTickets[p][k].claimed => playerTickets'[p][k].claimed
      ]_vars

(* a player bought a second ticket after an earlier ticket of another draw  *)
(* and of another number had been claimed                                   *)
C11_Witness ==
    \E p \in Players :
        /\ lastCall.op = "buyTicket" /\ lastCall.result = OK
        /\ lastCall.sender = p
        /\ totalTickets(p) = 2
        /\ TicketAt(p, 0).claimed /\ ~TicketAt(p, 1).claimed
        /\ TicketAt(p, 0).drawId # TicketAt(p, 1).drawId
        /\ TicketAt(p, 0).number.val # TicketAt(p, 1).number.val

(* what an observer sees of the ticket arrays: the count of each player and *)
(* the drawId and claimed flag of each ticket, without the numbers          *)
PublicTickets(tickets) ==
    [p \in Players |->
        [k \in 1 .. Len(tickets[p]) |->
            [drawId |-> tickets[p][k].drawId, claimed |-> tickets[p][k].claimed]]]

(* the outcome of claimTicket as the public state alone determines it *)
PublicClaimOutcome(pub, drs, sender, ticketIndex) ==
    IF ~(ticketIndex < Len(pub[sender])) THEN ErrInvalidIndex
    ELSE IF pub[sender][ticketIndex + 1].claimed THEN ErrAlreadyProcessed
    ELSE IF ~drs[pub[sender][ticketIndex + 1].drawId].executed
         THEN ErrDrawNotExecuted
    ELSE OK

(* C12: win-independence.  The outcome of every call and its effect on the  *)
(* public state (ticket counts, drawIds and claimed flags, the draws,       *)
(* currentDrawId, the score flags, the balance) and on the event log are    *)
(* functions of the public state before the call, of the call's arguments   *)
(* other than the ticket number, of the validity of the input proof and of  *)
(* the draw outcome; they read no ticket plaintext and no score.  Hence two *)
(* executions of one call sequence with the same draw outcomes that differ  *)
(* only in ticket plaintexts succeed and fail alike and keep equal public   *)
(* states and event logs, step after step.  In particular a successful      *)
(* claimTicket sets claimed and emits TicketClaimProcessed whether or not   *)
(* the ticket won.                                                          *)
C12_WinIndependence ==
    [][ LET c == lastCall'
            s == lastCall'.sender
            i == lastCall'.ticketIndex
            pub == PublicTickets(playerTickets)
            n == Len(playerTickets[lastCall'.sender])
        IN  /\ c.result # OK => NoEffect
            /\ c.op = "buyTicket" =>
                  /\ c.value # TICKET_PRICE => c.result = ErrInvalidPrice
                  /\ c.value = TICKET_PRICE => c.result \in {OK, ErrInvalidProof}
                  /\ c.result = OK =>
                        /\ PublicTickets(playerTickets') =
                             [pub EXCEPT ![s] =
                                [k \in 1 .. (n + 1) |->
                                    IF k <= n THEN pub[s][k]
                                    ELSE [drawId |-> currentDrawId,
                                          claimed |-> FALSE]]]
                        /\ events' = Emit(TicketPurchased(s, currentDrawId, n))
                        /\ scoreInitialized' =
                             [scoreInitialized EXCEPT ![s] = TRUE]
                        /\ balance' = balance + TICKET_PRICE
                        /\ UNCHANGED <<draws, currentDrawId>>
            /\ c.op = "executeDraw" =>
                  /\ c.result = OK
                  /\ PublicTickets(playerTickets') = pub
                  /\ currentDrawId' = currentDrawId + 1
                  /\ events' = Emit(DrawExecuted(currentDrawId, c.ret))
                  /\ draws'[currentDrawId].winningNumber = c.ret
                  /\ UNCHANGED <<scoreInitialized, balance>>
            /\ c.op = "claimTicket" =>
                  /\ c.result = PublicClaimOutcome(pub, draws, s, i)
                  /\ c.result = OK =>
                        /\ PublicTickets(playerTickets') =
                             [pub EXCEPT ![s][i + 1].claimed = TRUE]
                        /\ events' = Emit(TicketClaimProcessed(
                                            s, pub[s][i + 1].drawId, i))
                        /\ UNCHANGED <<draws, currentDrawId, scoreInitialized,
                                       balance>>
      ]_vars

(* a player claimed, with success, a winning and then a losing ticket of    *)
(* one draw: both are flagged, both events are in the log, one reward       *)
C12_Witness ==
    \E p \in Players :
        /\ lastCall.op = "claimTicket" /\ lastCall.result = OK
        /\ lastCall.sender = p
        /\ totalTickets(p) = 2
        /\ TicketAt(p, 0).drawId = TicketAt(p, 1).drawId
        /\ TicketAt(p, 0).claimed /\ TicketAt(p, 1).claimed
        /\ TicketAt(p, lastCall.ticketIndex).number.val
             # draws[TicketAt(p, 0).drawId].winningNumber
        /\ TicketAt(p, 1 - lastCall.ticketIndex).number.val
             = draws[TicketAt(p, 0).drawId].winningNumber
        /\ BagIn(TicketClaimProcessed(p, TicketAt(p, 0).drawId, 0), events)
        /\ BagIn(TicketClaimProcessed(p, TicketAt(p, 0).drawId, 1), events)
        /\ Uint32Value(getScore(p).val) = WIN_REWARD

(* C13: full cycle.  A player who started with score 0 and holds exactly    *)
(* one ticket for each number 1 .. 9, all bound to draw 1, has, once draw 1 *)
(* is executed and whatever the order of the claims, score 0 until the      *)
(* ticket of the winning number is claimed and score WIN_REWARD from then   *)
(* on: claiming a losing ticket leaves it as it is, and it is exactly       *)
(* WIN_REWARD once all nine tickets are claimed.                            *)
C13_FullCycle ==
    LET p == FullCyclePlayer
        score == Uint32Value(getScore(p).val)
        holdsAll ==
            /\ totalTickets(p) = MAX_NUMBER - MIN_NUMBER + 1
            /\ \A n \in MIN_NUMBER .. MAX_NUMBER :
                  \E k \in FullCycleIndexes :
                      /\ TicketAt(p, k).number.val = n
                      /\ TicketAt(p, k).drawId = 1
    IN  /\ ~draws[1].executed => score = 0
        /\ (draws[1].executed /\ holdsAll) =>
              /\ \A k \in FullCycleIndexes :
                    TicketAt(p, k).number.val = draws[1].winningNumber =>
                      score = IF TicketAt(p, k).claimed THEN WIN_REWARD ELSE 0
              /\ (\A k \in FullCycleIndexes : TicketAt(p, k).claimed) =>
                    score = WIN_REWARD

(* all nine tickets are claimed, the last claim was of a losing ticket, and *)
(* the score is WIN_REWARD                                                  *)
C13_Witness ==
    /\ lastCall.op = "claimTicket" /\ lastCall.result = OK
    /\ draws[1].executed
    /\ totalTickets(FullCyclePlayer) = MAX_NUMBER - MIN_NUMBER + 1
    /\ \A k \in FullCycleIndexes : TicketAt(FullCyclePlayer, k).claimed
    /\ TicketAt(FullCyclePlayer, lastCall.ticketIndex).number.val
         # draws[1].winningNumber
    /\ Uint32Value(getScore(FullCyclePlayer).val) = WIN_REWARD

(* a <= b on uint32 values *)
LeqUint32(a, b) == a.hi < b.hi \/ (a.hi = b.hi /\ a.lo <= b.lo)

(* the largest multiple of WIN_REWARD a uint32 holds, 4,294,967,290: the    *)
(* score after 429,496,729 winning claims.  Nothing in the contract bounds  *)
(* the tickets of a player or the draws.                                    *)
HighScore == [hi |-> Limb - 1, lo |-> Limb - 6]

(* scores a player can hold: none, one win, and the highest *)
ScoreValues == {Uint32(0), Uint32(WIN_REWARD), HighScore}

(* C14: score monotonicity.  The plaintext score of a player, a uint32      *)
(* (euint32) that a winning claim increments by WIN_REWARD, never decreases *)
(* under any call: whatever score the player holds, the score that a claim  *)
(* the contract accepts stores is not below it.  (buyTicket and executeDraw *)
(* do not write an initialized score.)                                      *)
C14_ScoreMonotonicity ==
    \A p \in Players, i \in TicketIndexes :
        ClaimTicketCheck(p, i) = OK =>
          \A s \in ScoreValues :
              LeqUint32(s, NextScore(TicketAt(p, i),
                                     [init |-> TRUE, val |-> s]).val)

(* C15 as stated: getDraw(drawId) returns the stored draw for every created *)
(* id (1 .. currentDrawId) and reports a not-found error for every id that  *)
(* was never created (0, or greater than currentDrawId).                    *)
C15_GetDrawNotFound ==
    \A d \in DrawIds :
        /\ d \in 1 .. currentDrawId =>
              getDrawCall(d) = [result |-> OK, ret |-> draws[d]]
        /\ d \notin 1 .. currentDrawId => getDrawCall(d).result # OK

(* C16: every executed draw has a winningNumber in MIN_NUMBER .. MAX_NUMBER *)
(* (1 .. 9), which executeDraw fixes when it resolves the draw and which no *)
(* later call changes; the active draw, not yet executed, has winningNumber *)
(* 0.                                                                       *)
C16_WinningNumberRange ==
    /\ [](/\ \A d \in DrawIds :
                draws[d].executed =>
                  draws[d].winningNumber \in MIN_NUMBER .. MAX_NUMBER
          /\ ~draws[currentDrawId].executed
          /\ draws[currentDrawId].winningNumber = 0)
    /\ [][ /\ \A d \in DrawIds : draws[d].executed => draws'[d] = draws[d]
           /\ (lastCall'.op = "executeDraw" /\ lastCall'.result = OK) =>
                 /\ draws'[currentDrawId].executed
                 /\ draws'[currentDrawId].winningNumber = lastCall'.ret
                 /\ lastCall'.ret \in MIN_NUMBER .. MAX_NUMBER
         ]_vars

(* two draws were executed, with the least and the greatest winning number, *)
(* a call was made since, and the active draw has winningNumber 0           *)
C16_Witness ==
    /\ currentDrawId = 3
    /\ draws[1].executed /\ draws[1].winningNumber = MIN_NUMBER
    /\ draws[2].executed /\ draws[2].winningNumber = MAX_NUMBER
    /\ draws[3].winningNumber = 0
    /\ lastCall.op = "claimTicket" /\ lastCall.result = OK

(* executeDraw, called by sender, succeeds *)
ExecuteDrawSucceeds(sender) ==
    \E randomness \in RandomnessValues, blockTimestamp \in Timestamps :
        /\ executeDraw(sender, randomness, blockTimestamp)
        /\ lastCall'.result = OK

(* C17: permissionless resolve.  In every reachable state executeDraw is    *)
(* enabled for every caller, with or without tickets and whatever the       *)
(* number of tickets of the active draw, zero included; every call of       *)
(* executeDraw succeeds, and it resolves exactly the draw that was active   *)
(* before the call: that draw becomes executed and no other executed or     *)
(* unexecuted draw of before the call is touched.                           *)
C17_PermissionlessResolve ==
    /\ [](\A p \in Players : ENABLED ExecuteDrawSucceeds(p))
    /\ [][ lastCall'.op = "executeDraw" =>
             /\ lastCall'.result = OK
             /\ ~draws[currentDrawId].executed
             /\ draws'[currentDrawId].executed
             /\ \A d \in DrawIds \ {currentDrawId, currentDrawId + 1} :
                   draws'[d] = draws[d]
             /\ ~draws'[currentDrawId + 1].executed
             /\ events' = Emit(DrawExecuted(currentDrawId, lastCall'.ret))
         ]_vars

(* a caller without tickets resolved, for the second time in a row, a draw  *)
(* that nobody had bought a ticket for                                      *)
C17_Witness ==
    /\ lastCall.op = "executeDraw" /\ lastCall.result = OK
    /\ totalTickets(lastCall.sender) = 0
    /\ \A p \in Players : totalTickets(p) = 0
    /\ currentDrawId = 3
    /\ draws[1].executed /\ draws[2].executed

(* C18: draw id progression.  Every successful executeDraw increases        *)
(* currentDrawId by exactly 1 and creates, in the same step, the draw of    *)
(* the new id, unexecuted, with winningNumber 0 and the timestamp of the    *)
(* call; a failed executeDraw, and every buyTicket and claimTicket, failed  *)
(* or not, change neither currentDrawId nor any draw.                       *)
C18_DrawIdProgression ==
    [][ /\ (lastCall'.op = "executeDraw" /\ lastCall'.result = OK) =>
              /\ currentDrawId' = currentDrawId + 1
              /\ draws[currentDrawId'] = EmptyDraw
              /\ draws'[currentDrawId'] = NewDraw(draws'[currentDrawId].executedAt)
              /\ draws'[currentDrawId'].executedAt > 0
        /\ ~(lastCall'.op = "executeDraw" /\ lastCall'.result = OK) =>
              UNCHANGED <<currentDrawId, draws>>
      ]_vars

(* a ticket of draw 1 was bought and claimed; the second resolution, at a   *)
(* later timestamp than the first, moved currentDrawId from 2 to 3 and      *)
(* created draw 3                                                           *)
C18_Witness ==
    /\ lastCall.op = "executeDraw" /\ lastCall.result = OK
    /\ currentDrawId = 3
    /\ draws[3] = NewDraw(draws[2].executedAt)
    /\ draws[2].executedAt > draws[1].executedAt
    /\ \E p \in Players :
          /\ totalTickets(p) = 1
          /\ TicketAt(p, 0).drawId = 1 /\ TicketAt(p, 0).claimed

(* C19: claim is the only score mutator.  executeDraw changes no score; a   *)
(* buyTicket by a player whose score is initialized leaves that score as it *)
(* is (it is not reset), and a first buyTicket sets the value 0, the value  *)
(* of the zero handle; the value of a player's score changes only in a      *)
(* successful claimTicket of that player.                                   *)
C19_ClaimOnlyScoreMutator ==
    [][ /\ lastCall'.op = "executeDraw" => playerScores' = playerScores
        /\ lastCall'.op = "buyTicket" =>
              \A p \in Players :
                  /\ scoreInitialized[p] => playerScores'[p] = playerScores[p]
                  /\ playerScores'[p].val = playerScores[p].val
        /\ \A p \in Players :
              playerScores'[p].val # playerScores[p].val =>
                  /\ lastCall'.op = "claimTicket"
                  /\ lastCall'.result = OK
                  /\ lastCall'.sender = p
      ]_vars

(* a player whose score is WIN_REWARD bought another ticket and the score   *)
(* is still WIN_REWARD                                                      *)
C19_Witness ==
    \E p \in Players :
        /\ lastCall.op = "buyTicket" /\ lastCall.result = OK
        /\ lastCall.sender = p
        /\ totalTickets(p) = 2
        /\ TicketAt(p, 0).claimed
        /\ scoreInitialized[p]
        /\ Uint32Value(getScore(p).val) = WIN_REWARD

(* C20: lazy score initialization.  In every reachable state, for every     *)
(* player P, scoreInitialized[P] holds exactly when totalTickets(P) > 0,    *)
(* and the score of P is the zero handle exactly while P has no ticket and  *)
(* an initialized handle otherwise; the first successful buyTicket of P     *)
(* sets the score to an initialized encrypted 0; claimTicket never operates *)
(* on an uninitialized score.                                               *)
C20_LazyScoreInit ==
    /\ [](\A p \in Players :
            /\ scoreInitialized[p] <=> totalTickets(p) > 0
            /\ getScore(p).init <=> totalTickets(p) > 0
            /\ totalTickets(p) = 0 => getScore(p) = ZeroHandle32)
    /\ [][ /\ (lastCall'.op = "buyTicket" /\ lastCall'.result = OK
                 /\ totalTickets(lastCall'.sender) = 0) =>
                 /\ playerScores'[lastCall'.sender] = FHE_asEuint32(0)
                 /\ scoreInitialized'[lastCall'.sender]
                 /\ Len(playerTickets'[lastCall'.sender]) = 1
           /\ (lastCall'.op = "claimTicket" /\ lastCall'.result = OK) =>
                 /\ scoreInitialized[lastCall'.sender]
                 /\ playerScores[lastCall'.sender].init
         ]_vars

(* one player has claimed a ticket on an initialized score while the other  *)
(* has no ticket and still the zero handle                                  *)
C20_Witness ==
    \E p, q \in Players :
        /\ lastCall.op = "claimTicket" /\ lastCall.result = OK
        /\ lastCall.sender = p
        /\ totalTickets(p) > 0 /\ scoreInitialized[p] /\ getScore(p).init
        /\ totalTickets(q) = 0 /\ ~scoreInitialized[q]
        /\ getScore(q) = ZeroHandle32

(* the handles of the numbers of the tickets that player bought *)
NumbersOf(player) ==
    {NumberHandle(getTickets(player)[k].number) :
        k \in 1 .. totalTickets(player)}

(* the handles of the score values stored for player so far *)
ScoresOf(player) ==
    IF scoreInitialized[player]
    THEN {ScoreHandle(player, version) : version \in 0 .. ScoreVersion(player)}
    ELSE {}

(* every number is granted to its buyer and to no other player *)
TicketGrantsOnlyToBuyer ==
    \A p \in Players : \A handle \in NumbersOf(p) :
        /\ FHE_allow(handle, p) \in acl
        /\ \A q \in Players \ {p} : FHE_allow(handle, q) \notin acl

(* no player is granted a score value of another player *)
ScoreGrantsOnlyToPlayer ==
    \A p \in Players : \A handle \in ScoresOf(p) :
        \A q \in Players \ {p} : FHE_allow(handle, q) \notin acl

(* C21: decrypt grants go only to the owner.  Grants are never withdrawn,   *)
(* so acl holds every grant ever issued: the only player granted a ticket's *)
(* number is the player who bought the ticket, the only player granted a    *)
(* score value of a player is that player, and every other grant is the     *)
(* contract's own (FHE.allowThis).                                          *)
C21_GrantsOnlyToOwner ==
    /\ TicketGrantsOnlyToBuyer
    /\ ScoreGrantsOnlyToPlayer
    /\ \A g \in acl :
          g.to = Contract \/ g.handle \in NumbersOf(g.to) \cup ScoresOf(g.to)

(* C22: grant refresh on mutation.  In every reachable state every player   *)
(* with an initialized score holds a decrypt grant on the score handle      *)
(* stored for them now, and so does the contract; in particular the caller  *)
(* of a successful claimTicket (win or loss) or buyTicket holds one on the  *)
(* score the call left.                                                     *)
C22_GrantRefresh ==
    /\ \A p \in Players :
          scoreInitialized[p] =>
            /\ FHE_allow(CurrentScoreHandle(p), p) \in acl
            /\ FHE_allowThis(CurrentScoreHandle(p)) \in acl
    /\ (lastCall.op \in {"claimTicket", "buyTicket"} /\ lastCall.result = OK) =>
          /\ scoreInitialized[lastCall.sender]
          /\ FHE_allow(CurrentScoreHandle(lastCall.sender), lastCall.sender)
               \in acl

(* a player claimed a losing ticket and holds a grant on the score handle   *)
(* that the claim stored, the second stored for them                        *)
C22_Witness ==
    \E p \in Players :
        /\ lastCall.op = "claimTicket" /\ lastCall.result = OK
        /\ lastCall.sender = p
        /\ TicketAt(p, lastCall.ticketIndex).number.val
             # draws[TicketAt(p, lastCall.ticketIndex).drawId].winningNumber
        /\ ScoreVersion(p) = 1
        /\ FHE_allow(ScoreHandle(p, 1), p) \in acl
        /\ FHE_allow(ScoreHandle(p, 0), p) \in acl

(* C23: sequential ticket indices.  A successful buyTicket returns the      *)
(* index of the ticket it stored, the last of the caller's array, that is   *)
(* totalTickets(caller) before the call; so the k-th purchase of a player   *)
(* returns k - 1.  The log holds, for every ticket and only for tickets,    *)
(* exactly one TicketPurchased event, which carries the ticket's player,    *)
(* its index and the drawId it is bound to.                                 *)
C23_SequentialIndices ==
    /\ (lastCall.op = "buyTicket" /\ lastCall.result = OK) =>
          /\ lastCall.ret = totalTickets(lastCall.sender) - 1
          /\ ~TicketAt(lastCall.sender, lastCall.ret).claimed
    /\ \A p \in Players : \A k \in 1 .. Len(playerTickets[p]) :
          CopiesIn(TicketPurchased(p, playerTickets[p][k].drawId, k - 1),
                   events) = 1
    /\ \A e \in BagToSet(events) :
          e.name = "TicketPurchased" =>
            /\ CopiesIn(e, events) = 1
            /\ e.ticketIndex < totalTickets(e.player)
            /\ e.drawId = TicketAt(e.player, e.ticketIndex).drawId

(* the third purchase of a player, made in the second draw, returned 2 and  *)
(* the log holds the events of indices 0, 1 and 2                           *)
C23_Witness ==
    \E p \in Players :
        /\ lastCall.op = "buyTicket" /\ lastCall.result = OK
        /\ lastCall.sender = p /\ lastCall.ret = 2
        /\ totalTickets(p) = 3
        /\ BagIn(TicketPurchased(p, 1, 0), events)
        /\ BagIn(TicketPurchased(p, 1, 1), events)
        /\ BagIn(TicketPurchased(p, 2, 2), events)

(* C24: draw event consistency.  The log holds exactly one DrawExecuted     *)
(* event for each resolved draw (ids 1 .. currentDrawId - 1, one per        *)
(* successful executeDraw) and none for the active draw; the event of a     *)
(* draw carries the winning number stored in the draw's record, in every    *)
(* later state, and the latest successful executeDraw returned the number   *)
(* of the draw it resolved, the one before the draw it opened.              *)
C24_DrawEventConsistency ==
    /\ \A d \in 1 .. (currentDrawId - 1) :
          \E e \in BagToSet(events) :
              /\ e.name = "DrawExecuted" /\ e.drawId = d
              /\ e.winningNumber = draws[d].winningNumber
    /\ \A e \in BagToSet(events) :
          e.name = "DrawExecuted" =>
            /\ CopiesIn(e, events) = 1
            /\ e.drawId \in 1 .. (currentDrawId - 1)
            /\ draws[e.drawId].executed
            /\ e.winningNumber = draws[e.drawId].winningNumber
    /\ (lastCall.op = "executeDraw" /\ lastCall.result = OK) =>
          /\ draws[currentDrawId - 1].winningNumber = lastCall.ret
          /\ \E e \in BagToSet(events) :
                /\ e.name = "DrawExecuted" /\ e.drawId = currentDrawId - 1
                /\ e.winningNumber = lastCall.ret

(* two draws were resolved with different numbers; the log holds the event  *)
(* of each, and the latest call returned the number of draw 2               *)
C24_Witness ==
    /\ lastCall.op = "executeDraw" /\ lastCall.result = OK
    /\ currentDrawId = 3
    /\ draws[1].winningNumber # draws[2].winningNumber
    /\ lastCall.ret = draws[2].winningNumber
    /\ CopiesIn([name |-> "DrawExecuted", drawId |-> 1,
                 winningNumber |-> draws[1].winningNumber], events) = 1
    /\ CopiesIn([name |-> "DrawExecuted", drawId |-> 2,
                 winningNumber |-> lastCall.ret], events) = 1

(* C25: ticket number domain.  Every stored ticket holds a number in        *)
(* MIN_NUMBER .. MAX_NUMBER (1 .. 9): a purchase whose encrypted number is  *)
(* another 8-bit value, such as 0 or 10, stores no ticket.                  *)
C25_TicketNumberDomain ==
    \A p \in Players : \A k \in 1 .. Len(playerTickets[p]) :
        playerTickets[p][k].number.val \in MIN_NUMBER .. MAX_NUMBER

(* buyTicket called with the exact payment and a ciphertext whose input     *)
(* proof the encrypted-value capability rejects                             *)
BuyTicketInvalidProof ==
    \E sender \in Players, n \in TicketNumbers :
        buyTicket(sender, NewInput(sender, n), FALSE, TICKET_PRICE)

(* C26: invalid proof.  A buyTicket whose ciphertext import is rejected     *)
(* fails with the error of the capability, InvalidProof, and changes        *)
(* nothing: no ticket is appended, the caller's score is not initialized,   *)
(* no grant is issued, no event is emitted and the payment is not kept.     *)
(* No other call fails with that error.                                     *)
C26_InvalidProof ==
    [][ /\ BuyTicketInvalidProof =>
              /\ lastCall'.result = ErrInvalidProof
              /\ NoEffect
        /\ lastCall'.result = ErrInvalidProof =>
              /\ lastCall'.op = "buyTicket"
              /\ lastCall'.value = TICKET_PRICE
              /\ UNCHANGED <<playerTickets, playerScores, scoreInitialized,
                             acl, events, balance>>
      ]_vars

(* the first purchase of a player was rejected for its proof: the player    *)
(* has no ticket, no score, no grant and no event, and the contract holds   *)
(* no ether of that call                                                    *)
C26_Witness ==
    \E p \in Players :
        /\ lastCall.op = "buyTicket" /\ lastCall.result = ErrInvalidProof
        /\ lastCall.sender = p /\ lastCall.value = TICKET_PRICE
        /\ totalTickets(p) = 0
        /\ ~scoreInitialized[p] /\ getScore(p) = ZeroHandle32
        /\ \A g \in acl : g.to # p
        /\ \A e \in BagToSet(events) :
              e.name = "TicketPurchased" => e.player # p
        /\ events # EmptyBag
        /\ balance = TICKET_PRICE

(* the lifecycle state of a ticket, given the draws *)
TicketState(ticket, drs) ==
    IF ticket.claimed THEN "Settled"
    ELSE IF drs[ticket.drawId].executed THEN "Claimable"
    ELSE "Open"

(* C27: ticket lifecycle.  Every ticket is Open (unclaimed, draw            *)
(* unexecuted), Claimable (unclaimed, draw executed) or Settled (claimed),  *)
(* and a claimed ticket's draw is executed in every reachable state.  A     *)
(* ticket is created Open; its state changes only from Open to Claimable,   *)
(* by the successful executeDraw that resolves its draw, and from Claimable *)
(* to Settled, by a successful claimTicket of its owner on its index; it    *)
(* never goes from Open to Settled and never leaves Settled.                *)
C27_TicketLifecycle ==
    /\ [](\A p \in Players : \A k \in 1 .. Len(playerTickets[p]) :
            playerTickets[p][k].claimed =>
              draws[playerTickets[p][k].drawId].executed)
    /\ [][ \A p \in Players :
             /\ \A k \in 1 .. Len(playerTickets[p]) :
                  LET before == TicketState(playerTickets[p][k], draws)
                      after == TicketState(playerTickets'[p][k], draws')
                  IN  before # after =>
                        \/ /\ before = "Open" /\ after = "Claimable"
                           /\ lastCall'.op = "executeDraw"
                           /\ lastCall'.result = OK
                           /\ playerTickets[p][k].drawId = currentDrawId
                        \/ /\ before = "Claimable" /\ after = "Settled"
                           /\ lastCall'.op = "claimTicket"
                           /\ lastCall'.result = OK
                           /\ lastCall'.sender = p
                           /\ lastCall'.ticketIndex = k - 1
             /\ \A k \in (Len(playerTickets[p]) + 1) .. Len(playerTickets'[p]) :
                  TicketState(playerTickets'[p][k], draws') = "Open"
         ]_vars

(* a player holds a Settled, a Claimable and an Open ticket *)
C27_Witness ==
    \E p \in Players :
        /\ totalTickets(p) = 3
        /\ TicketState(TicketAt(p, 0), draws) = "Settled"
        /\ TicketState(TicketAt(p, 1), draws) = "Claimable"
        /\ TicketState(TicketAt(p, 2), draws) = "Open"

(* C28: UI cache refresh after a draw.  When the executeDraw transaction    *)
(* sent from the page is confirmed, every draw-related query the page uses  *)
(* is invalidated and fetched again, the per-ticket draw information        *)
(* ('ticket-draws', from which the status and the winning number shown for  *)
(* a ticket are derived) included.                                          *)
DrawRelatedQueries ==
    {"currentDrawId", "activeDraw", "previousDraw", "ticket-draws"}

C28_UiDrawRefresh ==
    [][ (ui.draw.pc = "mined" /\ ui'.draw.pc = "refetch") =>
            Invalidated(ui, DrawRelatedQueries) \subseteq ui'.fetching
      ]_vars

(* the claimed tickets of player whose number is the winning number of the  *)
(* draw they are bound to                                                   *)
WinningClaims(player) ==
    {k \in 1 .. Len(playerTickets[player]) :
        /\ playerTickets[player][k].claimed
        /\ playerTickets[player][k].number.val
             = draws[playerTickets[player][k].drawId].winningNumber}

(* C29: score accounting.  In every reachable state the score value of each *)
(* player is WIN_REWARD times the number of that player's claimed tickets   *)
(* whose number equals the winning number of their draw, as a uint32        *)
(* (modulo 2^32); it is 0 for a player without such a ticket.               *)
C29_ScoreAccounting ==
    \A p \in Players :
        /\ getScore(p).val = Uint32(WIN_REWARD * Cardinality(WinningClaims(p)))
        /\ WinningClaims(p) = {} => Uint32Value(getScore(p).val) = 0

(* a player has claimed two winning tickets and has score 20, while the     *)
(* other player has score 0                                                 *)
C29_Witness ==
    \E p \in Players :
        /\ Cardinality(WinningClaims(p)) = 2
        /\ Uint32Value(getScore(p).val) = 2 * WIN_REWARD
        /\ \A q \in Players \ {p} : Uint32Value(getScore(q).val) = 0

(* C30: dead 'Draw already executed' guards.  The active draw is unexecuted *)
(* in every reachable state, so in every reachable state the check of       *)
(* buyTicket does not answer 'Draw already executed' for any payment and    *)
(* proof and accepts the exact payment with a valid proof, the check of     *)
(* executeDraw passes, and no call made has failed with that error: every   *)
(* executeDraw call succeeded.                                              *)
C30_DeadGuards ==
    /\ ~draws[currentDrawId].executed
    /\ \A value \in Payments, proofValid \in BOOLEAN :
          BuyTicketCheck(value, proofValid) # ErrDrawExecuted
    /\ BuyTicketCheck(TICKET_PRICE, TRUE) = OK
    /\ ExecuteDrawCheck = OK
    /\ lastCall.result # ErrDrawExecuted
    /\ lastCall.op = "executeDraw" => lastCall.result = OK
    /\ (lastCall.op = "buyTicket" /\ lastCall.value = TICKET_PRICE) =>
          lastCall.result \in {OK, ErrInvalidProof}

(* a ticket was bought in the third draw, right after the second resolution *)
C30_Witness ==
    /\ lastCall.op = "buyTicket" /\ lastCall.result = OK
    /\ currentDrawId = 3
    /\ draws[1].executed /\ draws[2].executed
    /\ TicketAt(lastCall.sender, lastCall.ret).drawId = 3
    /\ BagCardinality(events) = 3

(* C31: player isolation.  A buyTicket or a claimTicket of player A, failed *)
(* or not, leaves the ticket array (claimed flags included), the score and  *)
(* the scoreInitialized flag of every other player as they were; a          *)
(* successful claimTicket flags a ticket of its caller's own array and      *)
(* announces it under the caller's address.                                 *)
C31_PlayerIsolation ==
    [][ lastCall'.op \in {"buyTicket", "claimTicket"} =>
          /\ \A q \in Players \ {lastCall'.sender} :
                /\ playerTickets'[q] = playerTickets[q]
                /\ playerScores'[q] = playerScores[q]
                /\ scoreInitialized'[q] = scoreInitialized[q]
          /\ (lastCall'.op = "claimTicket" /\ lastCall'.result = OK) =>
                /\ lastCall'.ticketIndex < Len(playerTickets[lastCall'.sender])
                /\ playerTickets'[lastCall'.sender]
                     = MarkClaimed(playerTickets[lastCall'.sender],
                                   lastCall'.ticketIndex)
                /\ \E e \in BagToSet(events') :
                      /\ e.name = "TicketClaimProcessed"
                      /\ e.player = lastCall'.sender
                      /\ e.ticketIndex = lastCall'.ticketIndex
                      /\ CopiesIn(e, events') = CopiesIn(e, events) + 1
      ]_vars

(* a player claimed a winning ticket while the other player holds a ticket  *)
(* of the same draw and of the same number, unclaimed, and score 0          *)
C31_Witness ==
    \E p, q \in Players :
        /\ p # q
        /\ lastCall.op = "claimTicket" /\ lastCall.result = OK
        /\ lastCall.sender = p
        /\ totalTickets(p) = 1 /\ totalTickets(q) = 1
        /\ TicketAt(p, 0).number.val = TicketAt(q, 0).number.val
        /\ TicketAt(p, 0).drawId = TicketAt(q, 0).drawId
        /\ TicketAt(p, 0).claimed /\ ~TicketAt(q, 0).claimed
        /\ Uint32Value(getScore(p).val) = WIN_REWARD
        /\ Uint32Value(getScore(q).val) = 0

----------------------------------------------------------------------------
(* Claims in any order.  Players buy tickets with the exact payment and a  *)
(* valid proof, anyone resolves draws, and anyone calls claimTicket on any *)
(* index, in any interleaving.  To keep the state space finite, at most    *)
(* MaxOrderTickets tickets are sold, and draws are resolved and tickets    *)
(* sold only while currentDrawId <= MaxOrderDraws; claims are not limited. *)
(* Within the bounds a player holds tickets of up to three executed draws  *)
(* and claims them with purchases and resolutions in between.              *)

MaxOrderTickets == 3
MaxOrderDraws == 3
OrderIndexes == 0 .. (MaxOrderTickets - 1)
OrderTimestamps == {2}

OrderBuy ==
    \E sender \in Players, n \in TicketNumbers :
        /\ currentDrawId <= MaxOrderDraws
        /\ totalTickets("alice") + totalTickets("bob") < MaxOrderTickets
        /\ buyTicket(sender, NewInput(sender, n), TRUE, TICKET_PRICE)
        /\ UNCHANGED <<ui, cli>>

OrderDraw ==
    \E sender \in Players, randomness \in RandomnessValues,
       blockTimestamp \in OrderTimestamps :
        /\ currentDrawId <= MaxOrderDraws
        /\ executeDraw(sender, randomness, blockTimestamp)
        /\ UNCHANGED <<ui, cli>>

OrderClaim ==
    \E sender \in Players, ticketIndex \in OrderIndexes :
        /\ claimTicket(sender, ticketIndex)
        /\ UNCHANGED <<ui, cli>>

NextClaimOrder == OrderBuy \/ OrderDraw \/ OrderClaim

SpecClaimOrder == Init /\ [][NextClaimOrder]_vars

(* the indexes (from 1) of the claimed tickets of player *)
ClaimedSet(player) ==
    {k \in 1 .. Len(playerTickets[player]) : playerTickets[player][k].claimed}

(* the orders in which the elements of S can be taken *)
Orderings(S) ==
    {order \in [1 .. Cardinality(S) -> S] :
        \A i, j \in 1 .. Cardinality(S) : order[i] = order[j] => i = j}

(* the tickets with every claimed flag cleared *)
Unclaimed(tickets) ==
    [k \in 1 .. Len(tickets) |-> [tickets[k] EXCEPT !.claimed = FALSE]]

(* the tickets and the score after the claims of order, made one by one *)
RECURSIVE ClaimAll(_, _, _, _)
ClaimAll(order, n, tickets, score) ==
    IF n > Len(order) THEN [tickets |-> tickets, score |-> score]
    ELSE ClaimAll(order, n + 1, MarkClaimed(tickets, order[n] - 1),
                  NextScore(tickets[order[n]], score))

(* the indexes (from 1) of the tickets of player that claimTicket accepts *)
ClaimableSet(player) ==
    {k \in 1 .. totalTickets(player) :
        ClaimTicketCheck(player, k - 1) = OK}

(* the score and the tickets of player after player has claimed the tickets *)
(* of order, one by one, from now on                                        *)
ClaimsFromNow(player, order) ==
    ClaimAll(order, 1, getTickets(player), getScore(player))

(* C32: claim order independence.  Whatever the calls made, and so however  *)
(* the claims of a player were interleaved with purchases and resolutions,  *)
(* the score and the claimed flags of the player are those that result from *)
(* claiming the same set of tickets, starting from score 0, in any order:   *)
(* every order of the set gives the same score and the same flags.  The     *)
(* tickets of the set are bound to one draw or to different draws.  And a   *)
(* call that is not a claim of the player (a purchase, a resolution, a      *)
(* claim of another player, a call that fails) changes nothing in what the  *)
(* claims of any claimable tickets of the player, made in any order, give:  *)
(* the same score and the same flags as without the call.                   *)
C32_ClaimOrderIndependence ==
    /\ [](\A p \in Players :
            scoreInitialized[p] =>
              \A order \in Orderings(ClaimedSet(p)) :
                  ClaimAll(order, 1, Unclaimed(playerTickets[p]),
                           FHE_asEuint32(0))
                    = [tickets |-> playerTickets[p],
                       score |-> [init |-> TRUE, val |-> playerScores[p].val]])
    /\ [][ \A p \in Players :
             ~(/\ lastCall'.op = "claimTicket" /\ lastCall'.result = OK
               /\ lastCall'.sender = p) =>
               \A S \in SUBSET ClaimableSet(p) : \A order \in Orderings(S) :
                   /\ ClaimsFromNow(p, order)'.score.val
                        = ClaimsFromNow(p, order).score.val
                   /\ SubSeq(ClaimsFromNow(p, order)'.tickets, 1, totalTickets(p))
                        = ClaimsFromNow(p, order).tickets
       ]_vars

(* a player bought a ticket in each of three draws, the draws were resolved *)
(* one after the other, and the player has claimed the three tickets, two   *)
(* winning and one losing, the ticket of the first draw last                *)
C32_Witness ==
    \E p \in Players :
        /\ totalTickets(p) = 3
        /\ \A k \in 1 .. 3 : TicketAt(p, k - 1).drawId = k
        /\ currentDrawId = 4
        /\ ClaimedSet(p) = {1, 2, 3}
        /\ Cardinality(WinningClaims(p)) = 2
        /\ Uint32Value(getScore(p).val) = 2 * WIN_REWARD
        /\ lastCall.op = "claimTicket"
        /\ lastCall.sender = p
        /\ lastCall.result = OK
        /\ lastCall.ticketIndex = 0

----------------------------------------------------------------------------
(* Settlement.  Any player buys tickets, anyone resolves draws, owners      *)
(* claim, in any interleaving, failed calls included.  To keep the state    *)
(* space finite, tickets are sold and draws resolved only while             *)
(* currentDrawId <= MaxSettleDraws, and MaxSettleTickets tickets are sold   *)
(* at most; claims are not limited.  Every ticket sold can so be resolved.  *)
(* Every draw is resolved at the same block time with the same randomness:  *)
(* neither is read by the checks of claimTicket.                            *)
(* executeDraw and each successful claim are weakly fair: a transaction     *)
(* that stays executable is eventually sent and mined.                      *)

MaxSettleTickets == 2
MaxSettleDraws == 2
SettleIndexes == 0 .. (MaxSettleTickets - 1)

SettleBuy ==
    \E sender \in Players, n \in TicketNumbers, proofValid \in BOOLEAN,
       value \in Payments :
        /\ currentDrawId <= MaxSettleDraws
        /\ totalTickets("alice") + totalTickets("bob") < MaxSettleTickets
        /\ buyTicket(sender, NewInput(sender, n), proofValid, value)
        /\ UNCHANGED <<ui, cli>>

SettleRandomness == {8}
SettleTimestamps == {2}

SettleDraw ==
    \E sender \in Players, randomness \in SettleRandomness,
       blockTimestamp \in SettleTimestamps :
        /\ currentDrawId <= MaxSettleDraws
        /\ blockTimestamp >= draws[currentDrawId].executedAt
        /\ executeDraw(sender, randomness, blockTimestamp)
        /\ UNCHANGED <<ui, cli>>

SettleClaim(sender, ticketIndex) ==
    /\ claimTicket(sender, ticketIndex)
    /\ UNCHANGED <<ui, cli>>

(* the claim of ticketIndex by sender that does not revert *)
ClaimSucceeds(sender, ticketIndex) ==
    /\ SettleClaim(sender, ticketIndex)
    /\ lastCall'.result = OK

SettleClaimCall ==
    \E sender \in Players, ticketIndex \in SettleIndexes :
        SettleClaim(sender, ticketIndex)

SettleNext == SettleBuy \/ SettleDraw \/ SettleClaimCall

SettleFairness ==
    /\ WF_vars(SettleDraw)
    /\ \A sender \in Players, ticketIndex \in SettleIndexes :
           WF_vars(ClaimSucceeds(sender, ticketIndex))

SpecSettle == Init /\ [][SettleNext]_vars /\ SettleFairness

(* the ticket that player bought as their ticketIndex-th exists and is not *)
(* claimed yet                                                             *)
Pending(player, ticketIndex) ==
    /\ ticketIndex < totalTickets(player)
    /\ ~TicketAt(player, ticketIndex).claimed

(* C33: every ticket can be settled.  The owner's claim of a purchased      *)
(* ticket is not enabled before the draw of the ticket is resolved, is      *)
(* enabled by the one successful executeDraw made while that draw is the    *)
(* current draw, and then stays enabled, whatever the calls made, until the *)
(* step that is this claim; under weak fairness of executeDraw and of the   *)
(* owner's claim, every purchased ticket is eventually claimed.             *)
C33_EveryTicketSettled ==
    /\ [][ \A p \in Players, i \in SettleIndexes :
              /\ (Pending(p, i) /\ ENABLED ClaimSucceeds(p, i)) =>
                    \/ Pending(p, i)' /\ (ENABLED ClaimSucceeds(p, i))'
                    \/ /\ IsClaimed(playerTickets', p, i)
                       /\ lastCall' = Call("claimTicket", p, 0, i, OK, 0)
              /\ (Pending(p, i) /\ ~ENABLED ClaimSucceeds(p, i)) =>
                    /\ TicketAt(p, i).drawId = currentDrawId
                    /\ (ENABLED ClaimSucceeds(p, i))'
                          <=> /\ lastCall'.op = "executeDraw"
                              /\ lastCall'.result = OK
                              /\ currentDrawId' = currentDrawId + 1
          ]_vars
    /\ \A p \in Players, i \in SettleIndexes :
          (i < totalTickets(p)) ~> IsClaimed(playerTickets, p, i)

(* a ticket was bought, its draw was resolved, a later draw was resolved    *)
(* too and the other player bought a ticket in between, and the owner has   *)
(* now claimed the ticket                                                   *)
C33_Witness ==
    \E p, q \in Players :
        /\ p # q
        /\ IsClaimed(playerTickets, p, 0)
        /\ TicketAt(p, 0).drawId = 1
        /\ totalTickets(q) = 1
        /\ TicketAt(q, 0).drawId = 2
        /\ currentDrawId = 3
        /\ lastCall = Call("claimTicket", p, 0, 0, OK, 0)

(* the tickets ever purchased, all players together *)
RECURSIVE TicketsOf(_)
TicketsOf(S) ==
    IF S = {} THEN 0
    ELSE LET p == CHOOSE q \in S : TRUE
         IN  totalTickets(p) + TicketsOf(S \ {p})

(* C34: locked funds.  In every reachable state the balance of the contract *)
(* is TICKET_PRICE times the number of tickets ever purchased, all players  *)
(* together; and no step, a resolution or a winning claim included, lowers  *)
(* the balance.                                                             *)
C34_LockedFunds ==
    /\ [](balance = TICKET_PRICE * TicketsOf(Players))
    /\ [][balance' >= balance]_vars

(* both players bought tickets, a draw was resolved and a winning claim was *)
(* processed: the price of every ticket is still held                       *)
C34_Witness ==
    /\ totalTickets("alice") >= 1
    /\ totalTickets("bob") >= 1
    /\ balance = TICKET_PRICE * 2
    /\ lastCall.op = "claimTicket"
    /\ lastCall.result = OK
    /\ \E p \in Players : Uint32Value(getScore(p).val) = WIN_REWARD

(* handleDecryptScore runs on a score handle that is undefined or zero: the *)
(* page shows the score 0, starts no decryption and has requested nothing   *)
UiZeroReadsZero ==
    (DecryptScoreClick /\ ui.scoreHandle \in {<<>>, <<ZeroHash>>}) =>
        /\ ui'.decryptedScore = <<0>>
        /\ ui'.decryptScore = NotDecrypting
        /\ ui'.decryptRequests = ui.decryptRequests

(* the only request a running handleDecryptScore makes is for the handle it *)
(* was started on, for the player                                           *)
UiRequestsThatHandle ==
    (ui.decryptScore.pc = "request" /\ ui'.decryptRequests # ui.decryptRequests) =>
        ui'.decryptRequests
          = <<[handle |-> ui.decryptScore.handle, user |-> UiAddress]>>

(* luckyball:score reads the zero handle: it prints 0 and ends without a    *)
(* request; it reads another handle: it goes on to request the decryption   *)
(* of exactly that handle, for its signer                                   *)
TaskZeroReadsZero ==
    /\ (cli = CliIdle /\ cli'.task = "luckyball:score") =>
          IF getScoreHandle(cli'.signer) = ZeroHash
          THEN /\ cli'.output = <<0>>
               /\ cli'.requests = <<>>
               /\ cli'.pc = "done"
          ELSE /\ cli'.pc = "decrypt"
               /\ cli'.handle = getScoreHandle(cli'.signer)
               /\ cli'.requests = <<>>
    /\ (cli.pc = "decrypt" /\ cli' # cli) =>
          cli'.requests = <<[handle |-> cli.handle, user |-> cli.signer]>>

(* a handleDecryptScore that got past the checks of requestUserDecrypt has *)
(* ended with a decryption request for the handle it was started on         *)
UiRequestIssued ==
    /\ ui'.decryptRequests
         = <<[handle |-> ui.decryptScore.handle, user |-> UiAddress]>>
    /\ ui'.decryptScore = NotDecrypting
    /\ \/ ui'.decryptedScore = <<ClearOf(ui.decryptScore.handle)>>
       \/ /\ ui'.decryptedScore = ui.decryptedScore
          /\ ui'.errorMessage = ErrDecrypt

(* it has ended on the wallet's refusal to sign the request: the page shows *)
(* the error, no request was made and the decrypted score is as it was      *)
UiRequestRefused ==
    /\ ui'.decryptRequests = ui.decryptRequests
    /\ ui'.decryptScore = NotDecrypting
    /\ ui'.decryptedScore = ui.decryptedScore
    /\ ui'.errorMessage = ErrRejected

(* C35, as stated: an uninitialized score reads as zero on the client.      *)
(* Whenever the luckyball:score task or the page's handleDecryptScore runs  *)
(* on the zero handle, the run reports the score 0 and requests no          *)
(* decryption; whenever it runs on a handle that is not zero, it requests   *)
(* the decryption of exactly that handle: the run goes on to the request    *)
(* and ends with the request made.                                          *)
C35_ZeroHandleReadsZero ==
    [][ /\ UiZeroReadsZero
        /\ UiRequestsThatHandle
        /\ TaskZeroReadsZero
        /\ (DecryptScoreClick /\ ui.scoreHandle \notin {<<>>, <<ZeroHash>>}) =>
              ui'.decryptScore = Decrypting("request", ui.scoreHandle[1])
        /\ handleDecryptScoreAnswer => UiRequestIssued
      ]_vars

(* C35, amended: as above, but the page requests the decryption of a handle *)
(* that is not zero only when the encryption instance is ready, the signer  *)
(* is available and the wallet signs the request.  Without the instance or  *)
(* the signer handleDecryptScore shows the error of requestUserDecrypt,     *)
(* and on the wallet's refusal to sign it shows that error; in both cases   *)
(* it requests nothing and leaves the decrypted score as it was.            *)
C35_ZeroHandleReadsZeroWhenReady ==
    [][ /\ UiZeroReadsZero
        /\ UiRequestsThatHandle
        /\ TaskZeroReadsZero
        /\ (DecryptScoreClick /\ ui.scoreHandle \notin {<<>>, <<ZeroHash>>}) =>
              IF ui.zama = "ready" /\ ui.signerPromise
              THEN /\ ui'.decryptScore = Decrypting("request", ui.scoreHandle[1])
                   /\ ui'.decryptRequests = ui.decryptRequests
              ELSE /\ ui'.decryptScore = NotDecrypting
                   /\ ui'.errorMessage \in {ErrNotInitialized, ErrNotConnected}
                   /\ ui'.decryptedScore = ui.decryptedScore
                   /\ ui'.decryptRequests = ui.decryptRequests
        /\ handleDecryptScoreAnswer => UiRequestIssued \/ UiRequestRefused
      ]_vars

(* the page has decrypted the score of a player who holds a ticket, through *)
(* one request for the stored handle, and the task, run for a player        *)
(* without tickets, has printed 0 without a request                         *)
C35_Witness ==
    /\ ui.scoreHandle = <<CurrentScoreHandle(UiAddress)>>
    /\ ui.scoreHandle # <<ZeroHash>>
    /\ ui.decryptRequests
         = <<[handle |-> CurrentScoreHandle(UiAddress), user |-> UiAddress]>>
    /\ ui.decryptedScore = <<ClearOf(CurrentScoreHandle(UiAddress))>>
    /\ cli.task = "luckyball:score"
    /\ cli.signer # UiAddress
    /\ getScoreHandle(cli.signer) = ZeroHash
    /\ cli.pc = "done"
    /\ cli.output = <<0>>
    /\ cli.requests = <<>>

(* the text holds a digit and reads as an integer *)
IsIntegerText(text) ==
    /\ \E k \in 1 .. Len(text) : text[k] \in DecimalDigits
    /\ Number_isInteger(Number(text))

(* C36: input validation of the tasks.  A run of luckyball:buy whose        *)
(* --number is not an integer in 1..9 throws its error without encrypting   *)
(* anything and without a call to the contract, so every ticket bought      *)
(* through the task holds a number in 1..9; a run of luckyball:claim whose  *)
(* --index is not a non-negative integer throws its error without a call to *)
(* the contract.                                                            *)
C36_CliInputValidation ==
    [][ /\ (cli = CliIdle /\ cli'.task = "luckyball:buy") =>
             IF /\ IsIntegerText(cli'.arg)
                /\ ~LessThan(Number(cli'.arg), 1)
                /\ ~GreaterThan(Number(cli'.arg), 9)
             THEN /\ cli'.pc = "send"
                  /\ cli'.encrypted = <<IntegerOf(Number(cli'.arg))>>
             ELSE /\ cli'.pc = "done"
                  /\ cli'.error = ErrNumberArg
                  /\ cli'.encrypted = <<>>
                  /\ ~cli'.sent
                  /\ UNCHANGED <<storage, events, balance, acl, ciphertexts, lastCall>>
        /\ \A k \in 1 .. Len(playerTickets'[CliSigner]) :
              playerTickets'[CliSigner][k].number.val \in 1 .. 9
        /\ (cli = CliIdle /\ cli'.task = "luckyball:claim") =>
             IF IsIntegerText(cli'.arg) /\ ~LessThan(Number(cli'.arg), 0)
             THEN cli'.pc = "send"
             ELSE /\ cli'.pc = "done"
                  /\ cli'.error = ErrIndexArg
                  /\ ~cli'.sent
                  /\ UNCHANGED <<storage, events, balance, acl, ciphertexts, lastCall>>
        /\ (cli'.sent /\ ~cli.sent) => cli.pc = "send"
      ]_vars

====
